---- MODULE Spec2Model ----
(***************************************************************************)
(* A model of the whisker RV64 emulator core: the fetch/decode/execute     *)
(* step, the trap request/entry machinery, the debugger run loop, the      *)
(* register files and the paged memory with its LR/SC reservations.        *)
(*                                                                         *)
(* Values are unsigned 64-bit words in the program.  TLC evaluates 32-bit  *)
(* integers, so the guest programs and debugger inputs of this model keep  *)
(* every address and register value below 2^31 (TLC stops with an overflow *)
(* error otherwise); 32-bit instruction parcels are kept as a pair of      *)
(* 16-bit halves and multi-byte memory values as little-endian byte        *)
(* sequences, the way the code moves them through to_le_bytes and          *)
(* from_le_bytes.                                                          *)
(***************************************************************************)
EXTENDS Integers, Sequences, FiniteSets, TLC

(***************************************************************************)
(* Program constants.                                                      *)
(***************************************************************************)
PAGE_SIZE == 4096
CACHE_LINE_SIZE == 64
PollInterval == 1024
HART_ID == 0
BOOTROM_OFFSET == 4096
UART_ADDR == 268435456

\* TrapIdx causes.
INSTRUCTION_ADDR_MISALIGNED == 0
ILLEGAL_INSTRUCTION == 2
BREAKPOINT == 3
ECALL_MMODE == 10
INSTRUCTION_PAGE_FAULT == 12
LOAD_PAGE_FAULT == 13
STORE_PAGE_FAULT == 15

\* CSR addresses (define_csrs!).
MVENDORID == 3857
MARCHID == 3858
MIMPID == 3859
MTVEC == 773
MEPC == 833
MCAUSE == 834
MTVAL == 835
FCSR == 3
MTVEC_INIT == 1073741824

(***************************************************************************)
(* Bounds of the model.                                                    *)
(***************************************************************************)
\* Steps the general specification lets the CPU take.
MaxCycles == 10
\* Steps the run-loop specification lets the CPU take beyond one poll interval.
RunSlack == 6
\* Debugger commands that change CPU or memory state, per behaviour.
MaxDbgOps == 1

(***************************************************************************)
(* Bit helpers (util.rs).                                                  *)
(***************************************************************************)
Pow2(n) == 2 ^ n

\* extract_bits_16: bits start..=end of a 16-bit value.
extract_bits_16(val, start, end) == (val \div Pow2(start)) % Pow2(end - start + 1)

\* extract_bits_32 on a parcel kept as [lo, hi] 16-bit halves.
extract_bits_32(p, start, end) ==
    IF end <= 15 THEN extract_bits_16(p.lo, start, end)
    ELSE IF start >= 16 THEN extract_bits_16(p.hi, start - 16, end - 16)
    ELSE extract_bits_16(p.lo, start, 15)
         + Pow2(16 - start) * extract_bits_16(p.hi, 0, end - 16)

\* sign_ext_imm: every bit above sign_bit_idx becomes a copy of that bit.
sign_ext_imm(imm, sign_bit_idx) ==
    IF (imm \div Pow2(sign_bit_idx)) % 2 = 1
    THEN imm - Pow2(sign_bit_idx + 1)
    ELSE imm

\* to_le_bytes: the n low-order bytes of v, least significant first.
RECURSIVE to_le_bytes(_, _)
to_le_bytes(v, n) ==
    IF n = 0 THEN <<>> ELSE <<v % 256>> \o to_le_bytes(v \div 256, n - 1)

\* from_le_bytes.
RECURSIVE from_le_bytes(_)
from_le_bytes(bs) ==
    IF bs = <<>> THEN 0 ELSE Head(bs) + 256 * from_le_bytes(Tail(bs))

(***************************************************************************)
(* Sparse byte buffers: a function from the offsets that hold a nonzero    *)
(* byte; every other offset of the (zero-initialised) buffer reads 0.      *)
(***************************************************************************)
BufGet(buf, a) == IF a \in DOMAIN buf THEN buf[a] ELSE 0

BufPut(buf, a, v) ==
    IF v = 0
    THEN [x \in DOMAIN buf \ {a} |-> buf[x]]
    ELSE [x \in DOMAIN buf \cup {a} |-> IF x = a THEN v ELSE buf[x]]

(***************************************************************************)
(* Memory configuration of the model, in the shape main.rs gives the       *)
(* builder: a bootrom at BOOTROM_OFFSET, a physical buffer, a DRAM mapping  *)
(* onto it, and one MMIO page (the UART).  The DRAM window is scaled down   *)
(* to two pages followed by an unmapped page, and a second virtual page     *)
(* aliases physical page 0.                                                *)
(***************************************************************************)
PHYS_SIZE == 2 * PAGE_SIZE
DRAM_BASE == 8 * PAGE_SIZE
DRAM_SIZE == 2 * PAGE_SIZE
ALIAS_BASE == 16 * PAGE_SIZE
BOOTROM_LEN == PAGE_SIZE

\* MemoryBuilder.physical_mappings: virt base -> (phys base, size).
PhysicalMappings ==
    { [virt |-> DRAM_BASE, phys |-> 0, size |-> DRAM_SIZE],
      [virt |-> ALIAS_BASE, phys |-> 0, size |-> PAGE_SIZE] }

\* The page offsets (0..size).step_by(PAGE_SIZE) of MemoryBuilder::build.
PageOffsets(size) == { k * PAGE_SIZE : k \in 0 .. ((size \div PAGE_SIZE) - 1) }

\* PageBase::from_addr: addr & !(PAGE_SIZE - 1).
PageBase(addr) == addr - (addr % PAGE_SIZE)

BootromPages == { BOOTROM_OFFSET + off : off \in PageOffsets(BOOTROM_LEN) }
PhysPages == UNION { { m.virt + off : off \in PageOffsets(m.size) } : m \in PhysicalMappings }
MmioPages == { UART_ADDR }

\* Memory.mappings as MemoryBuilder::build fills it: page base -> PageEntry.
mappings ==
    [ base \in BootromPages \cup PhysPages \cup MmioPages |->
        IF base \in BootromPages
        THEN [kind |-> "Bootrom", page_base |-> base - BOOTROM_OFFSET]
        ELSE IF base \in PhysPages
        THEN LET m == CHOOSE m \in PhysicalMappings :
                        base \in { m.virt + off : off \in PageOffsets(m.size) }
             IN [kind |-> "PhysBacked", phys_base |-> m.phys + (base - m.virt)]
        ELSE [kind |-> "MMIO"] ]

(***************************************************************************)
(* MemoryBuilder (mem.rs).  A builder value is a record                    *)
(*   [physical, physical_mappings, misc_maps, bootrom]                     *)
(* where an Option is a sequence of length at most 1 and a HashMap is a     *)
(* function.  A builder call returns [kind |-> "ok", b |-> builder] or      *)
(* [kind |-> "panic"] when one of its asserts fails.                       *)
(***************************************************************************)
EmptyMap == [k \in {} |-> 0]

\* HashMap::insert: the map with the entry set, and whether the key was free.
MapInsert(map, key, value) ==
    [prev_none |-> key \notin DOMAIN map,
     map |-> [k \in DOMAIN map \cup {key} |-> IF k = key THEN value ELSE map[k]]]

\* align_to_page: (addr + (PAGE_SIZE - 1)) & !(PAGE_SIZE - 1).
align_to_page(addr) == (addr + (PAGE_SIZE - 1)) - ((addr + (PAGE_SIZE - 1)) % PAGE_SIZE)

\* (0..size).step_by(PAGE_SIZE) in ascending order.
PageSteps(size) ==
    [k \in 1 .. ((size + PAGE_SIZE - 1) \div PAGE_SIZE) |-> (k - 1) * PAGE_SIZE]

BuilderOk(b) == [kind |-> "ok", b |-> b]
BuilderPanic == [kind |-> "panic"]

\* MemoryBuilder::default.
MemoryBuilderDefault ==
    [physical |-> <<>>, physical_mappings |-> EmptyMap, misc_maps |-> EmptyMap,
     bootrom |-> <<>>]

\* MemoryBuilder::bootrom; len is the length of the image, which is padded.
builder_bootrom(b, len, addr) ==
    IF b.bootrom # <<>> THEN BuilderPanic
    ELSE BuilderOk([b EXCEPT !.bootrom = <<[len |-> align_to_page(len), addr |-> addr]>>])

\* MemoryBuilder::physical_size.
builder_physical_size(b, size) ==
    IF b.physical # <<>> THEN BuilderPanic
    ELSE IF size % PAGE_SIZE # 0 THEN BuilderPanic
    ELSE BuilderOk([b EXCEPT !.physical = <<size>>])

\* MemoryBuilder::phys_mapping.
builder_phys_mapping(b, virt_base, phys_base, size) ==
    IF size % PAGE_SIZE # 0 THEN BuilderPanic
    ELSE LET ins == MapInsert(b.physical_mappings, virt_base,
                              [phys |-> phys_base, size |-> size])
         IN IF ~ins.prev_none THEN BuilderPanic
            ELSE BuilderOk([b EXCEPT !.physical_mappings = ins.map])

\* MemoryBuilder::add_mapping.
builder_add_mapping(b, virt_addr, entry) ==
    LET ins == MapInsert(b.misc_maps, virt_addr, entry)
    IN IF ~ins.prev_none THEN BuilderPanic
       ELSE BuilderOk([b EXCEPT !.misc_maps = ins.map])

\* The bootrom loop of build: one Bootrom entry per page, unchecked.
RECURSIVE build_bootrom(_, _, _, _)
build_bootrom(map, virt_addr, offsets, i) ==
    IF i > Len(offsets) THEN map
    ELSE build_bootrom(MapInsert(map, virt_addr + offsets[i],
                                 [kind |-> "Bootrom", page_base |-> offsets[i]]).map,
                       virt_addr, offsets, i + 1)

\* A variant of the insertion of build that lets a later entry replace an
\* earlier one.
build_insert_overwrites(map, virt, entry) ==
    [kind |-> "ok", map |-> MapInsert(map, virt, entry).map]

\* An insertion of build followed by its assert!(prev.is_none()).
build_insert(map, virt, entry) ==
    LET ins == MapInsert(map, virt, entry)
    IN IF ins.prev_none THEN [kind |-> "ok", map |-> ins.map] ELSE [kind |-> "panic"]

\* The inner loop of build for one physical mapping.
RECURSIVE build_phys_pages(_, _, _, _, _)
build_phys_pages(r, virt_base, phys_base, offsets, i) ==
    IF r.kind = "panic" \/ i > Len(offsets) THEN r
    ELSE build_phys_pages(build_insert(r.map, virt_base + offsets[i],
                                       [kind |-> "PhysBacked",
                                        phys_base |-> phys_base + offsets[i]]),
                          virt_base, phys_base, offsets, i + 1)

\* The loop of build over physical_mappings, in the iteration order order.
RECURSIVE build_phys(_, _, _, _)
build_phys(r, pm, order, i) ==
    IF r.kind = "panic" \/ i > Len(order) THEN r
    ELSE build_phys(build_phys_pages(r, order[i], pm[order[i]].phys,
                                     PageSteps(pm[order[i]].size), 1),
                    pm, order, i + 1)

\* The loop of build over misc_maps, in the iteration order order.
RECURSIVE build_misc(_, _, _, _)
build_misc(r, mm, order, i) ==
    IF r.kind = "panic" \/ i > Len(order) THEN r
    ELSE build_misc(build_insert(r.map, order[i], mm[order[i]]), mm, order, i + 1)

\* The iteration orders of a HashMap with the keys keys.
IterOrders(keys) ==
    { o \in [1 .. Cardinality(keys) -> keys] :
        \A i, j \in 1 .. Cardinality(keys) : i # j => o[i] # o[j] }

\* MemoryBuilder::build with the iteration orders of the two HashMaps:
\* [kind |-> "ok", mappings, phys_len, bootrom_len] or [kind |-> "panic"].
build(b, phys_order, misc_order) ==
    LET rom == IF b.bootrom = <<>> THEN [len |-> 0, addr |-> 0] ELSE b.bootrom[1]
        boot == build_bootrom(EmptyMap, rom.addr, PageSteps(rom.len), 1)
        phys == build_phys([kind |-> "ok", map |-> boot], b.physical_mappings,
                           phys_order, 1)
        all == build_misc(phys, b.misc_maps, misc_order, 1)
    IN IF all.kind = "panic" THEN [kind |-> "panic"]
       ELSE [kind |-> "ok", mappings |-> all.map,
             phys_len |-> IF b.physical = <<>> THEN 0 ELSE b.physical[1],
             bootrom_len |-> rom.len]

(***************************************************************************)
(* MemoryReservations (mem.rs): physical line address -> hart id.          *)
(***************************************************************************)
LineOf(phys_addr) == phys_addr - (phys_addr % CACHE_LINE_SIZE)

\* A variant of MemoryReservations::reserve that records the line for the
\* hart after the one given.
reserve_next_hart(res, phys_addr, hart_id) ==
    [ l \in DOMAIN res \cup {LineOf(phys_addr)} |->
        IF l = LineOf(phys_addr) THEN hart_id + 1 ELSE res[l] ]

\* A variant of reserve that keeps a single reservation: making one drops
\* every other.
reserve_single(res, phys_addr, hart_id) ==
    [ l \in {LineOf(phys_addr)} |-> hart_id ]

reserve(res, phys_addr, hart_id) ==
    [ l \in DOMAIN res \cup {LineOf(phys_addr)} |->
        IF l = LineOf(phys_addr) THEN hart_id ELSE res[l] ]

\* A variant of MemoryReservations::unreserve that leaves the table as it is.
unreserve_keeps(res, phys_addr) == res

unreserve(res, phys_addr) ==
    [ l \in DOMAIN res \ {LineOf(phys_addr)} |-> res[l] ]

\* A variant of MemoryReservations::is_reserved that finds every line reserved.
is_reserved_always(res, phys_addr, hart_id) == TRUE

is_reserved(res, phys_addr, hart_id) ==
    LineOf(phys_addr) \in DOMAIN res /\ res[LineOf(phys_addr)] = hart_id

(***************************************************************************)
(* Memory (mem.rs).  A memory value is a record                            *)
(*   [phys, bootrom, reservations, atomic_lock, unlocked_reservation].     *)
(* unlocked_reservation is bookkeeping for the properties, which the code  *)
(* does not keep: it becomes TRUE when load_reserved_* or store_conditional_* *)
(* changes the reservation table while atomic_lock is not held.           *)
(* Operations return records whose kind is "ok", "err" (with the failing   *)
(* virtual address), or "panic" (an index outside a buffer, or the UART's   *)
(* unimplemented read callback).                                           *)
(***************************************************************************)

\* Memory::read_slice from byte idx on; acc holds the bytes read so far.
RECURSIVE read_from(_, _, _, _, _)
read_from(m, offset, idx, n, acc) ==
    IF idx = n THEN [kind |-> "ok", bytes |-> acc]
    ELSE
      LET a == offset + idx
          base == PageBase(a)
      IN IF base \notin DOMAIN mappings THEN [kind |-> "err", addr |-> a]
         ELSE
           LET e == mappings[base]
               page_offset == a - base
           IN CASE e.kind = "PhysBacked" ->
                     IF e.phys_base + page_offset >= PHYS_SIZE
                     THEN [kind |-> "panic"]
                     ELSE read_from(m, offset, idx + 1, n,
                                    Append(acc, BufGet(m.phys, e.phys_base + page_offset)))
                [] e.kind = "Bootrom" ->
                     IF e.page_base + page_offset >= BOOTROM_LEN
                     THEN [kind |-> "panic"]
                     ELSE read_from(m, offset, idx + 1, n,
                                    Append(acc, BufGet(m.bootrom, e.page_base + page_offset)))
                [] OTHER -> [kind |-> "panic"]

read_slice(m, offset, n) == read_from(m, offset, 0, n, <<>>)

\* Memory::write_slice from byte idx on.  touched collects the physical lines
\* written (bookkeeping for the properties; the code keeps no such set).
RECURSIVE write_from(_, _, _, _, _)
write_from(m, offset, val, idx, touched) ==
    IF idx = Len(val) THEN [kind |-> "ok", mem |-> m, touched |-> touched]
    ELSE
      LET a == offset + idx
          base == PageBase(a)
      IN IF base \notin DOMAIN mappings
         THEN [kind |-> "err", addr |-> a, mem |-> m, touched |-> touched]
         ELSE
           LET e == mappings[base]
               page_offset == a - base
           IN CASE e.kind = "PhysBacked" ->
                     LET phys_addr == e.phys_base + page_offset
                         m1 == [m EXCEPT !.reservations = unreserve(@, phys_addr)]
                     IN IF phys_addr >= PHYS_SIZE
                        THEN [kind |-> "panic", mem |-> m1, touched |-> touched]
                        ELSE write_from([m1 EXCEPT !.phys = BufPut(@, phys_addr, val[idx + 1])],
                                        offset, val, idx + 1,
                                        touched \cup {LineOf(phys_addr)})
                [] e.kind = "Bootrom" ->
                     IF e.page_base + page_offset >= BOOTROM_LEN
                     THEN [kind |-> "panic", mem |-> m, touched |-> touched]
                     ELSE write_from([m EXCEPT !.bootrom =
                                          BufPut(@, e.page_base + page_offset, val[idx + 1])],
                                     offset, val, idx + 1, touched)
                [] OTHER -> write_from(m, offset, val, idx + 1, touched)

\* A variant of write_slice that undoes the bytes already written when a
\* later byte fails.
write_slice_rolled_back(m, offset, val) ==
    LET w == write_from(m, offset, val, 0, {})
    IN IF w.kind = "err" THEN [w EXCEPT !.mem = m, !.touched = {}] ELSE w

write_slice(m, offset, val) == write_from(m, offset, val, 0, {})

\* A variant of translate_address that hands back the virtual address of a
\* physically-backed page as its physical address.
translate_address_virtual(virt_addr) ==
    LET base == PageBase(virt_addr)
    IN IF base \notin DOMAIN mappings THEN [kind |-> "err", addr |-> virt_addr]
       ELSE IF mappings[base].kind = "PhysBacked"
            THEN [kind |-> "ok", phys |-> virt_addr]
            ELSE [kind |-> "err", addr |-> virt_addr]

\* Memory::translate_address.
translate_address(virt_addr) ==
    LET base == PageBase(virt_addr)
    IN IF base \notin DOMAIN mappings THEN [kind |-> "err", addr |-> virt_addr]
       ELSE IF mappings[base].kind = "PhysBacked"
            THEN [kind |-> "ok", phys |-> mappings[base].phys_base + (virt_addr - base)]
            ELSE [kind |-> "err", addr |-> virt_addr]

\* from_le_bytes on the bytes of a successful read_slice.
read_value(r) ==
    IF r.kind = "ok" THEN [kind |-> "ok", val |-> from_le_bytes(r.bytes)] ELSE r

\* impl_mem_rw!: read_u8/u16/u32/u64 as read_int(m, offset, size in bytes).
read_int(m, offset, n) == read_value(read_slice(m, offset, n))

\* A variant of write_u64 that writes only the low four bytes.
write_int_low_word(m, offset, val, n) ==
    write_slice(m, offset, to_le_bytes(val, IF n > 4 THEN 4 ELSE n))

\* impl_mem_rw!: write_u8/u16/u32/u64 as write_int(m, offset, val, size in bytes).
write_int(m, offset, val, n) == write_slice(m, offset, to_le_bytes(val, n))

\* The result of a load-reserved whose read returned r; m1 holds the
\* reservation, which stays when the read fails.
load_reserved_read(m1, r) ==
    CASE r.kind = "ok" -> [kind |-> "ok", val |-> r.val, mem |-> m1]
      [] r.kind = "err" -> [kind |-> "err", addr |-> r.addr, mem |-> m1]
      [] OTHER -> [kind |-> "panic", mem |-> m1]

\* Memory::load_reserved_word (n = 4) and load_reserved_dword (n = 8):
\* translate, reserve the line, read.
load_reserved(m, virt_addr, hart_id, n) ==
    LET t == translate_address(virt_addr)
        m1 == [m EXCEPT !.reservations = reserve(@, t.phys, hart_id),
                        !.unlocked_reservation = @ \/ ~m.atomic_lock]
    IN IF t.kind = "err" THEN [kind |-> "err", addr |-> t.addr, mem |-> m]
       ELSE load_reserved_read(m1, read_int(m1, virt_addr, n))

\* A variant of the locked part of store_conditional that returns without
\* releasing the lock.
store_conditional_keeps_lock(w, phys_addr) ==
    IF w.kind = "panic"
    THEN [kind |-> "panic", mem |-> w.mem, touched |-> w.touched]
    ELSE [kind |-> "ok", success |-> (w.kind = "ok"),
          mem |-> [w.mem EXCEPT !.reservations = unreserve(@, phys_addr),
                                !.unlocked_reservation = @ \/ ~w.mem.atomic_lock],
          touched |-> w.touched]

\* The locked region of a store-conditional: w is the result of the write,
\* then the reservation on phys_addr is dropped and the lock released.
store_conditional_locked(w, phys_addr) ==
    IF w.kind = "panic"
    THEN [kind |-> "panic", mem |-> w.mem, touched |-> w.touched]
    ELSE [kind |-> "ok", success |-> (w.kind = "ok"),
          mem |-> [w.mem EXCEPT !.reservations = unreserve(@, phys_addr),
                                !.unlocked_reservation = @ \/ ~w.mem.atomic_lock,
                                !.atomic_lock = FALSE],
          touched |-> w.touched]

\* Memory::store_conditional_word (n = 4) and store_conditional_dword (n = 8).
\* A lock found held would spin forever: kind "hang".
store_conditional(m, virt_addr, hart_id, val, n) ==
    LET t == translate_address(virt_addr)
    IN IF t.kind = "err" THEN [kind |-> "err", addr |-> t.addr, mem |-> m, touched |-> {}]
       ELSE IF ~is_reserved(m.reservations, t.phys, hart_id)
       THEN [kind |-> "ok", success |-> FALSE, mem |-> m, touched |-> {}]
       ELSE IF m.atomic_lock THEN [kind |-> "hang", mem |-> m, touched |-> {}]
       ELSE store_conditional_locked(
                write_int([m EXCEPT !.atomic_lock = TRUE], virt_addr, val, n), t.phys)

(***************************************************************************)
(* CPU state.  A CPU value is a record                                     *)
(*   [supported_extensions, mem, registers, fp_registers, should_trap,     *)
(*    csrs, pc, cycles, exec_state, breakpoints]                           *)
(* with registers and fp_registers the raw arrays x[0..31] and csrs the    *)
(* values of the CSRs that define_csrs! creates.                           *)
(***************************************************************************)
RegIdx == 0 .. 31

\* GPRegisters::get.
GPGet(x, index) == IF index = 0 THEN 0 ELSE x[index]

\* A variant of GPRegisters::set without the check for index 0.
GPSet_writes_zero(x, index, value) == [x EXCEPT ![index] = value]

\* GPRegisters::set.
GPSet(x, index, value) == IF index = 0 THEN x ELSE [x EXCEPT ![index] = value]

\* GPRegisters::set_all: x[1..] is copied from regs[1..].
GPSetAll(x, regs) == [i \in RegIdx |-> IF i = 0 THEN x[0] ELSE regs[i]]

\* FPRegisters::set_all_raw.
FPSetAllRaw(x, regs) == regs

\* ControlStatusRegisters::new: every defined CSR with its initial value.
CsrAddrs == {MVENDORID, MARCHID, MIMPID, MTVEC, MEPC, MCAUSE, MTVAL, FCSR}
CsrNew == [a \in CsrAddrs |-> IF a = MTVEC THEN MTVEC_INIT ELSE 0]

\* The CSRs define_csrs! declares RW.
CsrRw == {MTVEC, MEPC, MCAUSE, MTVAL, FCSR}

\* SupportedExtensions::has on a set of extension names.
has(supported_extensions, ext) == ext \in supported_extensions

\* u64::wrapping_add_signed.  The programs of this model keep every sum
\* inside 0 .. 2^31 - 1, where wrapping does not occur (see ValuesInRange).
wrapping_add_signed(a, b) == a + b

\* WhiskerCpu::new followed by main.rs's init_cpu, which sets pc.
CpuNew(supported_extensions, mem) ==
    [ supported_extensions |-> supported_extensions,
      mem |-> mem,
      registers |-> [i \in RegIdx |-> 0],
      fp_registers |-> [i \in RegIdx |-> 0],
      should_trap |-> FALSE,
      csrs |-> CsrNew,
      pc |-> BOOTROM_OFFSET,
      cycles |-> 0,
      exec_state |-> "Paused",
      breakpoints |-> {} ]

\* A variant of request_trap that enters the trap at once: pc is redirected
\* to mtvec within the requesting step.
request_trap_enters_now(s, trap, mtval) ==
    [s EXCEPT !.csrs = [@ EXCEPT ![MCAUSE] = trap, ![MTVAL] = mtval],
              !.should_trap = TRUE,
              !.pc = s.csrs[MTVEC]]

\* WhiskerCpu::request_trap.
request_trap(s, trap, mtval) ==
    [s EXCEPT !.csrs = [@ EXCEPT ![MCAUSE] = trap, ![MTVAL] = mtval],
              !.should_trap = TRUE]

\* WhiskerCpu::exec_trap: sets pc and clears the flag, then panics.
exec_trap(s) ==
    [s |-> [s EXCEPT !.pc = s.csrs[MTVEC], !.should_trap = FALSE],
     ret |-> "panic"]

\* A variant of should_poll with twice the interval.
should_poll_2048(s) == s.cycles % (2 * PollInterval) = 0

\* WhiskerCpu::should_poll.
should_poll(s) == s.cycles % PollInterval = 0

(***************************************************************************)
(* insn32 field extraction (insn32/mod.rs).  A parcel is [lo, hi].         *)
(***************************************************************************)
extract_dst(inst) == extract_bits_32(inst, 7, 11)
extract_src1(inst) == extract_bits_32(inst, 15, 19)
extract_src2(inst) == extract_bits_32(inst, 20, 24)

\* IType::parse.
ITypeParse(parcel) ==
    [ dst |-> extract_dst(parcel),
      func |-> extract_bits_32(parcel, 12, 14),
      src |-> extract_src1(parcel),
      imm |-> sign_ext_imm(extract_bits_32(parcel, 20, 31), 11) ]

\* UType::parse: bits 12..31 shifted left by 12, sign-extended at bit 31.
\* The shifted value is kept as [hi16, lo16 = low 4 bits << 12] so that the
\* sign bit is decided on the 16-bit upper half.
UTypeParse(parcel) ==
    LET hi == extract_bits_32(parcel, 16, 31)
        lo == extract_bits_32(parcel, 12, 15) * 4096
    IN [ dst |-> extract_dst(parcel),
         imm |-> sign_ext_imm(hi, 15) * 65536 + lo ]

\* SType::parse.
STypeParse(parcel) ==
    LET imm0 == extract_bits_32(parcel, 7, 11)
        imm1 == extract_bits_32(parcel, 25, 31)
    IN [ func |-> extract_bits_32(parcel, 12, 14),
         src1 |-> extract_src1(parcel),
         src2 |-> extract_src2(parcel),
         imm |-> sign_ext_imm(imm1 * 32 + imm0, 11) ]

\* JType::parse.
JTypeParse(parcel) ==
    LET imm12_19 == extract_bits_32(parcel, 12, 19)
        imm11 == extract_bits_32(parcel, 20, 20)
        imm1_10 == extract_bits_32(parcel, 21, 30)
        imm20 == extract_bits_32(parcel, 31, 31)
    IN [ dst |-> extract_dst(parcel),
         imm |-> sign_ext_imm(imm1_10 * 2 + imm11 * 2048 + imm12_19 * 4096
                              + imm20 * 1048576, 20) ]

\* RType::parse: func3, func7 and the three registers.
RTypeParse(parcel) ==
    [ dst |-> extract_dst(parcel),
      src1 |-> extract_src1(parcel),
      src2 |-> extract_src2(parcel),
      func3 |-> extract_bits_32(parcel, 12, 14),
      func7 |-> extract_bits_32(parcel, 25, 31) ]

(***************************************************************************)
(* Decoders.  A decode result is [kind, s] with kind                        *)
(*   "ok"     and the fields insn (the Instruction record) and size,       *)
(*   "err"    the decoder requested a trap in s and returned Err(()),      *)
(*   "panic"  the decoder aborted (todo!, unimplemented!, unreachable!,    *)
(*            panic!),                                                     *)
(*   "other"  an instruction outside the subset this model executes; the   *)
(*            guest programs of the model contain none (see Modelled).     *)
(***************************************************************************)
DecOk(s, insn) == [kind |-> "ok", s |-> s, insn |-> insn]
\* A variant of the decoder's failure that returns Err without requesting the
\* trap.
DecIllegal_no_trap(s, mtval) == [kind |-> "err", s |-> s]

DecIllegal(s, mtval) == [kind |-> "err", s |-> request_trap(s, ILLEGAL_INSTRUCTION, mtval)]
DecPanic(s) == [kind |-> "panic", s |-> s]
DecOther(s) == [kind |-> "other", s |-> s]

\* insn32::load::parse_load with IntInstruction::parse_load.
parse_load(s, parcel) ==
    LET itype == ITypeParse(parcel)
    IN IF itype.func = 7 THEN DecPanic(s)
       ELSE IF ~has(s.supported_extensions, "INTEGER") THEN DecIllegal(s, 0)
       ELSE IF itype.func = 2
       THEN DecOk(s, [ext |-> "Int", op |-> "LoadWord", dst |-> itype.dst,
                      src |-> itype.src, src_offset |-> itype.imm])
       ELSE IF itype.func = 3
       THEN DecOk(s, [ext |-> "Int", op |-> "LoadDoubleWord", dst |-> itype.dst,
                      src |-> itype.src, src_offset |-> itype.imm])
       ELSE DecOther(s)

\* insn32::store::parse_store with IntInstruction::parse_store.
parse_store(s, parcel) ==
    LET stype == STypeParse(parcel)
    IN IF stype.func > 3 THEN DecPanic(s)
       ELSE IF ~has(s.supported_extensions, "INTEGER") THEN DecIllegal(s, 0)
       ELSE DecOk(s, [ext |-> "Int",
                      op |-> CASE stype.func = 0 -> "StoreByte"
                               [] stype.func = 1 -> "StoreHalf"
                               [] stype.func = 2 -> "StoreWord"
                               [] OTHER -> "StoreDoubleWord",
                      dst |-> stype.src1, dst_offset |-> stype.imm,
                      src |-> stype.src2])

\* insn32::op_imm::parse_op_imm with IntInstruction::parse_op_imm.
parse_op_imm(s, parcel) ==
    LET itype == ITypeParse(parcel)
    IN IF ~has(s.supported_extensions, "INTEGER") THEN DecIllegal(s, 0)
       ELSE IF itype.func = 0
       THEN DecOk(s, [ext |-> "Int", op |-> "AddImmediate", dst |-> itype.dst,
                      lhs |-> itype.src, rhs |-> itype.imm])
       ELSE DecOther(s)

\* insn32::jalr::parse_jalr.
parse_jalr(s, parcel) ==
    LET itype == ITypeParse(parcel)
    IN IF itype.func = 0
       THEN DecOk(s, [ext |-> "Int", op |-> "JumpAndLinkRegister",
                      link_reg |-> itype.dst, jmp_reg |-> itype.src,
                      jmp_off |-> itype.imm])
       ELSE DecPanic(s)

\* insn32::system::imm_to_csr: the low 12 bits of the sign-extended immediate.
imm_to_csr(imm) == imm % 4096

\* insn32::system::parse_csr; the immediate forms carry the 5-bit rs1 field
\* as their source value.
parse_csr(itype) ==
    LET csr == imm_to_csr(itype.imm)
    IN CASE itype.func = 1 ->
              [ext |-> "Csr", op |-> "CSRReadWrite", dst |-> itype.dst,
               src |-> itype.src, csr |-> csr]
         [] itype.func = 2 ->
              [ext |-> "Csr", op |-> "CSRReadAndSet", dst |-> itype.dst,
               mask |-> itype.src, csr |-> csr]
         [] itype.func = 3 ->
              [ext |-> "Csr", op |-> "CSRReadAndClear", dst |-> itype.dst,
               mask |-> itype.src, csr |-> csr]
         [] itype.func = 5 ->
              [ext |-> "Csr", op |-> "CSRReadWriteImm", dst |-> itype.dst,
               src |-> itype.src, csr |-> csr]
         [] itype.func = 6 ->
              [ext |-> "Csr", op |-> "CSRReadAndSetImm", dst |-> itype.dst,
               mask |-> itype.src, csr |-> csr]
         [] itype.func = 7 ->
              [ext |-> "Csr", op |-> "CSRReadAndClearImm", dst |-> itype.dst,
               mask |-> itype.src, csr |-> csr]

\* insn32::system::parse_system with parse_call_break.
parse_system(s, parcel) ==
    LET itype == ITypeParse(parcel)
    IN IF itype.func = 0
       THEN IF ~has(s.supported_extensions, "INTEGER") THEN DecIllegal(s, 0)
            ELSE IF itype.dst = 0 /\ itype.src = 0 /\ itype.imm = 0
            THEN DecOk(s, [ext |-> "Int", op |-> "ECall"])
            ELSE IF itype.dst = 0 /\ itype.src = 0 /\ itype.imm = 1
            THEN DecOk(s, [ext |-> "Int", op |-> "EBreak"])
            ELSE DecPanic(s)
       ELSE IF itype.func = 4 THEN DecPanic(s)
       ELSE DecOk(s, parse_csr(itype))

\* The variant parse_word_insn / parse_double_word_insn builds for a
\* read-modify-write func5 (amo.rs consts).
AmoVariant(func5) ==
    CASE func5 = 1 -> "Swap" [] func5 = 0 -> "Add" [] func5 = 4 -> "Xor"
      [] func5 = 12 -> "And" [] func5 = 8 -> "Or" [] func5 = 16 -> "Min"
      [] func5 = 20 -> "Max" [] func5 = 24 -> "MinUnsigned"
      [] func5 = 28 -> "MaxUnsigned"

\* AtomicInstruction::parse_word_insn (width 4) and parse_double_word_insn
\* (width 8): the two differ only in the variant they build.  func5 is bits
\* 2..7 of func7 (the code's extract_bits_8 is extract_bits_16 on a u8).
parse_atomic_insn(s, rtype, width) ==
    LET func5 == extract_bits_16(rtype.func7, 2, 7)
    IN CASE func5 = 2 ->
              IF rtype.src2 # 0 THEN DecIllegal(s, 0)
              ELSE DecOk(s, [ext |-> "Atomic", op |-> "LoadReserved", width |-> width,
                             src |-> rtype.src1, dst |-> rtype.dst])
         [] func5 = 3 ->
              DecOk(s, [ext |-> "Atomic", op |-> "StoreConditional", width |-> width,
                        src1 |-> rtype.src1, src2 |-> rtype.src2, dst |-> rtype.dst])
         [] func5 \in {1, 0, 4, 12, 8, 16, 20, 24, 28} ->
              DecOk(s, [ext |-> "Atomic", op |-> AmoVariant(func5), width |-> width,
                        src1 |-> rtype.src1, src2 |-> rtype.src2, dst |-> rtype.dst])
         [] OTHER -> DecPanic(s)

\* insn32::amo::parse_amo.
parse_amo(s, parcel) ==
    LET rtype == RTypeParse(parcel)
    IN CASE rtype.func3 = 2 -> parse_atomic_insn(s, rtype, 4)
         [] rtype.func3 = 3 -> parse_atomic_insn(s, rtype, 8)
         [] OTHER -> DecPanic(s)

\* The AMO arm of the 32-bit opcode dispatch.  The copy of insn32/mod.rs at
\* hand predates amo.rs and still has todo!("AMO") there; the executor of
\* cpu.rs and the decoder of amo.rs are joined as the specification's opcode
\* dispatch describes.
amo_dispatch(s, parcel) == parse_amo(s, parcel)

\* insn32::parse: dispatch on bits 2..6.
insn32_parse(s, parcel) ==
    LET opcode_ty == extract_bits_32(parcel, 2, 6)
    IN CASE opcode_ty = 0 -> parse_load(s, parcel)
         [] opcode_ty = 4 -> parse_op_imm(s, parcel)
         [] opcode_ty = 5 ->
              LET utype == UTypeParse(parcel)
              IN DecOk(s, [ext |-> "Int", op |-> "AddUpperImmediateToPc",
                           dst |-> utype.dst, val |-> utype.imm])
         [] opcode_ty = 8 -> parse_store(s, parcel)
         [] opcode_ty = 11 -> amo_dispatch(s, parcel)
         [] opcode_ty = 13 ->
              LET utype == UTypeParse(parcel)
              IN DecOk(s, [ext |-> "Int", op |-> "LoadUpperImmediate",
                           dst |-> utype.dst, val |-> utype.imm])
         [] opcode_ty = 25 -> parse_jalr(s, parcel)
         [] opcode_ty = 27 ->
              LET jtype == JTypeParse(parcel)
              IN DecOk(s, [ext |-> "Int", op |-> "JumpAndLink",
                           link_reg |-> jtype.dst, jmp_off |-> jtype.imm])
         [] opcode_ty = 28 -> parse_system(s, parcel)
         [] opcode_ty \in {2, 3, 7, 10, 14, 15, 17, 18, 19, 21, 22, 23, 26, 29, 30, 31} ->
              DecPanic(s)
         [] OTHER -> DecOther(s)

\* CImmType::parse for the C1 encodings with a sign-extended 6-bit immediate.
CImmTypeParse(parcel) ==
    LET imm_0_4 == extract_bits_16(parcel, 2, 6)
        imm_5 == extract_bits_16(parcel, 12, 12)
    IN [ reg |-> extract_bits_16(parcel, 7, 11),
         imm |-> sign_ext_imm(imm_5 * 32 + imm_0_4, 5) ]

\* CompressedInstruction::parse_c1: c.nop / c.addi and the reserved c.addiw.
parse_c1(s, parcel) ==
    LET func3 == extract_bits_16(parcel, 13, 15)
        im == CImmTypeParse(parcel)
    IN CASE func3 = 0 ->
              IF im.reg = 0 /\ im.imm = 0
              THEN DecOk(s, [ext |-> "Compressed", op |-> "Nop"])
              ELSE DecOk(s, [ext |-> "Int", op |-> "AddImmediate", dst |-> im.reg,
                             lhs |-> im.reg, rhs |-> im.imm])
         [] func3 = 1 ->
              IF im.reg = 0 THEN DecIllegal(s, 0) ELSE DecOther(s)
         [] OTHER -> DecOther(s)

\* consts::opcode::c2: the func3 of the jr/jalr/mv/ebreak/add group and the
\* two values of its 4-bit func.
JR_JALR_MV_EBREAK_ADD == 4
JR_MV == 8
JALR_EBREAK_ADD == 9
LINK_REG == 1

\* CRType::parse.
CRTypeParse(parcel) ==
    [ src1 |-> extract_bits_16(parcel, 7, 11),
      src2 |-> extract_bits_16(parcel, 2, 6) ]

\* CompressedInstruction::parse_c2, the JR_JALR_MV_EBREAK_ADD arm: c.jr and
\* c.jalr become JumpAndLinkRegister with offset 0 and link register x0 and
\* x1, the HINT encodings are todo!(), and c.mv / c.add and the other arms
\* of parse_c2 are not followed here.
parse_c2(s, parcel) ==
    LET func3 == extract_bits_16(parcel, 13, 15)
        func == extract_bits_16(parcel, 12, 15)
        crtype == CRTypeParse(parcel)
    IN IF func3 # JR_JALR_MV_EBREAK_ADD THEN DecOther(s)
       ELSE IF func = JR_MV
       THEN CASE crtype.src1 = 0 /\ crtype.src2 = 0 -> DecIllegal(s, 0)
              [] crtype.src1 = 0 /\ crtype.src2 # 0 -> DecPanic(s)
              [] crtype.src1 # 0 /\ crtype.src2 = 0 ->
                   DecOk(s, [ext |-> "Int", op |-> "JumpAndLinkRegister",
                             link_reg |-> 0, jmp_reg |-> crtype.src1, jmp_off |-> 0])
              [] OTHER -> DecOther(s)
       ELSE CASE crtype.src1 = 0 /\ crtype.src2 = 0 ->
                   DecOk(s, [ext |-> "Int", op |-> "EBreak"])
              [] crtype.src1 = 0 /\ crtype.src2 # 0 -> DecPanic(s)
              [] crtype.src1 # 0 /\ crtype.src2 = 0 ->
                   DecOk(s, [ext |-> "Int", op |-> "JumpAndLinkRegister",
                             link_reg |-> LINK_REG, jmp_reg |-> crtype.src1,
                             jmp_off |-> 0])
              [] OTHER -> DecOther(s)

\* insn16::parse: the all-zero parcel panics; quadrants 0 and 2 are outside
\* the executed subset.
insn16_parse(s, parcel) ==
    IF parcel = 0 THEN DecPanic(s)
    ELSE IF extract_bits_16(parcel, 0, 1) = 1 THEN parse_c1(s, parcel)
    ELSE IF extract_bits_16(parcel, 0, 1) = 2 THEN parse_c2(s, parcel)
    ELSE DecOther(s)

\* Ok((insn, size)) of a decoder result d; an Err or an abort passes through.
with_size(d, size) == IF d.kind = "ok" THEN d @@ [size |-> size] ELSE d

\* The 32-bit arm of fetch_instruction: r2 is the result of read_u32(pc), its
\* bytes handed on as the two halves of the parcel.
fetch_full_parcel(s, r2) ==
    CASE r2.kind = "panic" -> DecPanic(s)
      [] r2.kind = "err" ->
           [kind |-> "err", s |-> request_trap(s, INSTRUCTION_PAGE_FAULT, r2.addr)]
      [] OTHER ->
           with_size(insn32_parse(s, [lo |-> from_le_bytes(SubSeq(r2.bytes, 1, 2)),
                                      hi |-> from_le_bytes(SubSeq(r2.bytes, 3, 4))]), 4)

\* A variant of the length decode that reports a 16-bit parcel met without the
\* compressed extension with mtval = 0, as the 32-bit decoders do.
fetch_by_length_mtval_zero(s, parcel1) ==
    IF extract_bits_16(parcel1, 0, 1) # 3
    THEN IF has(s.supported_extensions, "COMPRESSED")
         THEN with_size(insn16_parse(s, parcel1), 2)
         ELSE DecIllegal(s, 0)
    ELSE IF extract_bits_16(parcel1, 2, 4) # 7
    THEN fetch_full_parcel(s, read_slice(s.mem, s.pc, 4))
    ELSE IF extract_bits_16(parcel1, 0, 5) = 31
    THEN IF has(s.supported_extensions, "COMPRESSED") THEN DecPanic(s)
         ELSE DecIllegal(s, s.pc)
    ELSE IF extract_bits_16(parcel1, 0, 6) = 63
    THEN IF has(s.supported_extensions, "COMPRESSED") THEN DecPanic(s)
         ELSE DecIllegal(s, s.pc)
    ELSE DecIllegal(s, s.pc)

\* fetch_instruction after read_u16(pc) returned parcel1: the length decode.
fetch_by_length(s, parcel1) ==
    IF extract_bits_16(parcel1, 0, 1) # 3
    THEN IF has(s.supported_extensions, "COMPRESSED")
         THEN with_size(insn16_parse(s, parcel1), 2)
         ELSE DecIllegal(s, s.pc)
    ELSE IF extract_bits_16(parcel1, 2, 4) # 7
    THEN fetch_full_parcel(s, read_slice(s.mem, s.pc, 4))
    ELSE IF extract_bits_16(parcel1, 0, 5) = 31
    THEN IF has(s.supported_extensions, "COMPRESSED") THEN DecPanic(s)
         ELSE DecIllegal(s, s.pc)
    ELSE IF extract_bits_16(parcel1, 0, 6) = 63
    THEN IF has(s.supported_extensions, "COMPRESSED") THEN DecPanic(s)
         ELSE DecIllegal(s, s.pc)
    ELSE DecIllegal(s, s.pc)

\* fetch_instruction from the result r1 of read_u16(pc).
fetch_parcel1(s, r1) ==
    CASE r1.kind = "panic" -> DecPanic(s)
      [] r1.kind = "err" ->
           [kind |-> "err", s |-> request_trap(s, INSTRUCTION_PAGE_FAULT, r1.addr)]
      [] OTHER -> fetch_by_length(s, r1.val)

\* Instruction::fetch_instruction.
fetch_instruction(s) == fetch_parcel1(s, read_int(s.mem, s.pc, 2))

(***************************************************************************)
(* Executors (cpu.rs).  An executor result is [s, out, touched]: the CPU   *)
(* after the instruction, out = "done", "panic" (the process aborted) or   *)
(* "hang" (spinning on the atomic lock), and the physical lines the        *)
(* instruction stored to.                                                  *)
(***************************************************************************)
ExDone(s) == [s |-> s, out |-> "done", touched |-> {}]

\* `as u8` .. `as u64` on a value below 2^31: only the 1- and 2-byte casts cut.
Truncate(val, n) == IF n >= 4 THEN val ELSE val % Pow2(8 * n)

\* The tail of write_mem_*!: w is the result of the write.
write_mem_result(s, w) ==
    CASE w.kind = "ok" ->
           [s |-> [s EXCEPT !.mem = w.mem], out |-> "done", touched |-> w.touched]
      [] w.kind = "err" ->
           [s |-> request_trap([s EXCEPT !.mem = w.mem], STORE_PAGE_FAULT, w.addr),
            out |-> "done", touched |-> w.touched]
      [] OTHER -> [s |-> [s EXCEPT !.mem = w.mem], out |-> "panic", touched |-> w.touched]

\* write_mem_u8! .. write_mem_u64!: store, or request STORE_PAGE_FAULT at the
\* failing address and return from the executor.
write_mem(s, offset, val, n) == write_mem_result(s, write_int(s.mem, offset, val, n))

\* The tail of a load: r is the result of read_mem_*!.
exec_load_result(s, insn, r) ==
    CASE r.kind = "ok" -> ExDone([s EXCEPT !.registers = GPSet(@, insn.dst, r.val)])
      [] r.kind = "err" -> ExDone(request_trap(s, LOAD_PAGE_FAULT, r.addr))
      [] OTHER -> [s |-> s, out |-> "panic", touched |-> {}]

\* read_mem_u32! / read_mem_u64! followed by the register update of the load.
\* LoadWord keeps the destination's bits 63..32, which are 0 for the values
\* of this model.
exec_load(s, insn, n) ==
    exec_load_result(s, insn,
        read_int(s.mem,
                 wrapping_add_signed(GPGet(s.registers, insn.src), insn.src_offset), n))

\* The store arms of execute_i_insn.
exec_store(s, insn, n) ==
    LET offset == wrapping_add_signed(GPGet(s.registers, insn.dst), insn.dst_offset)
        val == Truncate(GPGet(s.registers, insn.src), n)
    IN write_mem(s, offset, val, n)

\* WhiskerCpu::execute_i_insn; s.pc is already past the instruction.
execute_i_insn(s, insn, start_pc) ==
    CASE insn.op = "LoadUpperImmediate" ->
           ExDone([s EXCEPT !.registers = GPSet(@, insn.dst, insn.val)])
      [] insn.op = "AddUpperImmediateToPc" ->
           ExDone([s EXCEPT !.registers =
                       GPSet(@, insn.dst, wrapping_add_signed(start_pc, insn.val))])
      [] insn.op = "StoreByte" -> exec_store(s, insn, 1)
      [] insn.op = "StoreHalf" -> exec_store(s, insn, 2)
      [] insn.op = "StoreWord" -> exec_store(s, insn, 4)
      [] insn.op = "StoreDoubleWord" -> exec_store(s, insn, 8)
      [] insn.op = "LoadWord" -> exec_load(s, insn, 4)
      [] insn.op = "LoadDoubleWord" -> exec_load(s, insn, 8)
      [] insn.op = "JumpAndLink" ->
           ExDone([s EXCEPT !.registers = GPSet(@, insn.link_reg, start_pc + 4),
                            !.pc = wrapping_add_signed(start_pc, insn.jmp_off)])
      [] insn.op = "JumpAndLinkRegister" ->
           LET target == wrapping_add_signed(GPGet(GPSet(s.registers, insn.link_reg,
                                                         start_pc + 4), insn.jmp_reg),
                                             insn.jmp_off)
           IN ExDone([s EXCEPT !.registers = GPSet(@, insn.link_reg, start_pc + 4),
                               !.pc = target - (target % 2)])
      [] insn.op = "AddImmediate" ->
           ExDone([s EXCEPT !.registers =
                       GPSet(@, insn.dst,
                             wrapping_add_signed(GPGet(s.registers, insn.lhs), insn.rhs))])
      [] insn.op = "ECall" -> ExDone(request_trap(s, ECALL_MMODE, 0))
      [] insn.op = "EBreak" -> ExDone(request_trap(s, BREAKPOINT, 0))

\* WhiskerCpu::exec_compressed_insn: Nop.
exec_compressed_insn(s, insn, start_pc) == ExDone(s)

\* The tail of the LoadReserved arms: r is the result of load_reserved_*.
exec_lr_result(s, insn, r) ==
    IF r.kind = "ok"
    THEN ExDone([s EXCEPT !.mem = r.mem, !.registers = GPSet(@, insn.dst, r.val)])
    ELSE [s |-> [s EXCEPT !.mem = r.mem], out |-> "panic", touched |-> {}]

\* The tail of the StoreConditional arms: r is the result of
\* store_conditional_*.
exec_sc_result(s, insn, r) ==
    IF r.kind = "ok"
    THEN [s |-> [s EXCEPT !.mem = r.mem,
                          !.registers = GPSet(@, insn.dst, IF r.success THEN 0 ELSE 1)],
          out |-> "done", touched |-> r.touched]
    ELSE [s |-> [s EXCEPT !.mem = r.mem],
          out |-> IF r.kind = "hang" THEN "hang" ELSE "panic", touched |-> r.touched]

\* The operators ^, & and | on naturals, bit by bit.
RECURSIVE BitXor(_, _)
BitXor(a, b) ==
    IF a = 0 /\ b = 0 THEN 0
    ELSE (IF (a % 2) # (b % 2) THEN 1 ELSE 0) + 2 * BitXor(a \div 2, b \div 2)

RECURSIVE BitAnd(_, _)
BitAnd(a, b) ==
    IF a = 0 \/ b = 0 THEN 0
    ELSE (IF (a % 2) = 1 /\ (b % 2) = 1 THEN 1 ELSE 0) + 2 * BitAnd(a \div 2, b \div 2)

RECURSIVE BitOr(_, _)
BitOr(a, b) ==
    IF a = 0 /\ b = 0 THEN 0
    ELSE (IF (a % 2) = 1 \/ (b % 2) = 1 THEN 1 ELSE 0) + 2 * BitOr(a \div 2, b \div 2)

\* std::cmp::min and std::cmp::max.
Min(a, b) == IF a <= b THEN a ELSE b
Max(a, b) == IF a >= b THEN a ELSE b

\* `as i32` / `as i64` of an n-byte value, and back.  The values of this model
\* are below 2^31 (see ValuesInRange), where only a cast below 4 bytes could
\* see the sign bit; the read-modify-write instructions have n = 4 or 8.
AsSigned(v, n) == IF n < 4 /\ v >= Pow2(8 * n - 1) THEN v - Pow2(8 * n) ELSE v
AsUnsigned(v, n) == IF n < 4 /\ v < 0 THEN v + Pow2(8 * n) ELSE v

\* The closures handed to atomic_op_word / atomic_op_dword: the replacement
\* computed from the value read and src2_val, for an n-byte operation.
amo_replacement(op, word, src2_val, n) ==
    CASE op = "Swap" -> src2_val
      [] op = "Add" -> Truncate(word + src2_val, n)
      [] op = "Xor" -> BitXor(word, src2_val)
      [] op = "And" -> BitAnd(word, src2_val)
      [] op = "Or" -> BitOr(word, src2_val)
      [] op = "Min" -> AsUnsigned(Min(AsSigned(word, n), AsSigned(src2_val, n)), n)
      [] op = "Max" -> AsUnsigned(Max(AsSigned(word, n), AsSigned(src2_val, n)), n)
      [] op = "MinUnsigned" -> Min(word, src2_val)
      [] op = "MaxUnsigned" -> Max(word, src2_val)

\* The end of atomic_op_*: w is the result of the write of the replacement;
\* the lock is released, and .expect() aborts on Err.
exec_amo_result(s1, w) ==
    [s |-> [s1 EXCEPT !.mem = [w.mem EXCEPT !.atomic_lock = FALSE]],
     out |-> IF w.kind = "ok" THEN "done" ELSE "panic",
     touched |-> w.touched]

\* The rest of the closure and the write: s1 already has the value read in
\* dst, and src2 is read from s1.
exec_amo_write(s1, insn, addr, word) ==
    exec_amo_result(s1,
        write_int([s1.mem EXCEPT !.atomic_lock = TRUE], addr,
                  amo_replacement(insn.op, word,
                                  Truncate(GPGet(s1.registers, insn.src2), insn.width),
                                  insn.width),
                  insn.width))

\* A variant of the read-modify-write executor that leaves the destination
\* register alone: the value read goes only into the operation.
exec_amo_read_keeps_dst(s, insn, addr, r) ==
    IF r.kind = "ok"
    THEN exec_amo_write(s, insn, addr, r.val)
    ELSE [s |-> s, out |-> "panic", touched |-> {}]

\* atomic_op_* after its read returned r: the closure first puts the value
\* read into dst; a failed read is Err, on which .expect() aborts.
exec_amo_read(s, insn, addr, r) ==
    IF r.kind = "ok"
    THEN exec_amo_write([s EXCEPT !.registers = GPSet(@, insn.dst, r.val)],
                        insn, addr, r.val)
    ELSE [s |-> s, out |-> "panic", touched |-> {}]

\* The read-modify-write arms of exec_atomic_insn with atomic_op_word (width
\* 4) and atomic_op_dword (width 8).  A lock found held would spin forever.
exec_amo(s, insn) ==
    IF s.mem.atomic_lock THEN [s |-> s, out |-> "hang", touched |-> {}]
    ELSE exec_amo_read(s, insn, GPGet(s.registers, insn.src1),
                       read_int(s.mem, GPGet(s.registers, insn.src1), insn.width))

\* WhiskerCpu::exec_atomic_insn: .expect() on the memory result aborts the
\* process when the address does not translate.
exec_atomic_insn(s, insn, start_pc) ==
    CASE insn.op = "LoadReserved" ->
           exec_lr_result(s, insn,
               load_reserved(s.mem, GPGet(s.registers, insn.src), HART_ID, insn.width))
      [] insn.op = "StoreConditional" ->
           exec_sc_result(s, insn,
               store_conditional(s.mem, GPGet(s.registers, insn.src1), HART_ID,
                                 Truncate(GPGet(s.registers, insn.src2), insn.width),
                                 insn.width))
      [] OTHER -> exec_amo(s, insn)

\* What a step did, for the properties: the code keeps no such record.
NoInsn == [ext |-> "none", op |-> "none"]
StepInfo(kind, insn, size, start_pc, touched) ==
    [kind |-> kind, insn |-> insn, size |-> size, start_pc |-> start_pc,
     touched |-> touched]

\* The result of an executed instruction: d the decode, e the executor result.
executed(d, start_pc, e) ==
    [s |-> e.s,
     ret |-> IF e.out = "done" THEN "Ok" ELSE e.out,
     info |-> StepInfo("executed", d.insn, d.size, start_pc, e.touched)]

\* get_csr!: the CSR exists.
get_csr(s, addr) == addr \in DOMAIN s.csrs

\* A variant of get_csr_mut! that does not look at the rw flag.
get_csr_mut_any(s, addr) == addr \in DOMAIN s.csrs

\* get_csr_mut!: the CSR exists and is RW.
get_csr_mut(s, addr) == addr \in DOMAIN s.csrs /\ addr \in CsrRw

\* The illegal-instruction request both macros make before returning.
csr_illegal(s) == ExDone(request_trap(s, ILLEGAL_INSTRUCTION, 0))

\* The CSRReadWrite and CSRReadWriteImm arms: the destination is set first,
\* unless it is x0, and the source register is read afterwards.
exec_csr_write(s, insn) ==
    IF ~get_csr_mut(s, insn.csr) THEN csr_illegal(s)
    ELSE LET regs == IF insn.dst # 0
                     THEN GPSet(s.registers, insn.dst, s.csrs[insn.csr])
                     ELSE s.registers
             src == IF insn.op = "CSRReadWrite" THEN GPGet(regs, insn.src) ELSE insn.src
         IN ExDone([s EXCEPT !.registers = regs, !.csrs[insn.csr] = src])

\* The read-and-set and read-and-clear arms with an active write side: the
\* mask register is read after the destination was set; read-and-set does
\* val |= mask and read-and-clear val &= mask.
exec_csr_modify(s, insn) ==
    IF ~get_csr_mut(s, insn.csr) THEN csr_illegal(s)
    ELSE LET regs == GPSet(s.registers, insn.dst, s.csrs[insn.csr])
             mask == IF insn.op \in {"CSRReadAndSet", "CSRReadAndClear"}
                     THEN GPGet(regs, insn.mask) ELSE insn.mask
             val == IF insn.op \in {"CSRReadAndSet", "CSRReadAndSetImm"}
                    THEN BitOr(s.csrs[insn.csr], mask)
                    ELSE BitAnd(s.csrs[insn.csr], mask)
         IN ExDone([s EXCEPT !.registers = regs, !.csrs[insn.csr] = val])

\* The read-and-set and read-and-clear arms with an inactive write side.
exec_csr_read(s, insn) ==
    IF ~get_csr(s, insn.csr) THEN csr_illegal(s)
    ELSE ExDone([s EXCEPT !.registers = GPSet(@, insn.dst, s.csrs[insn.csr])])

\* WhiskerCpu::exec_csr.
exec_csr(s, insn, start_pc) ==
    IF insn.op \in {"CSRReadWrite", "CSRReadWriteImm"} THEN exec_csr_write(s, insn)
    ELSE IF insn.mask # 0 THEN exec_csr_modify(s, insn)
    ELSE exec_csr_read(s, insn)

\* The match on the instruction family in execute_one; s1 has pc advanced.
dispatch(s1, insn, start_pc) ==
    CASE insn.ext = "Int" -> execute_i_insn(s1, insn, start_pc)
      [] insn.ext = "Compressed" -> exec_compressed_insn(s1, insn, start_pc)
      [] insn.ext = "Atomic" -> exec_atomic_insn(s1, insn, start_pc)
      [] insn.ext = "Csr" -> exec_csr(s1, insn, start_pc)

\* The match on the result d of fetch_instruction in execute_one: advance pc
\* by the size and dispatch, or return Ok(()) on a decode error.
fetched(d, start_pc) ==
    CASE d.kind = "ok" ->
           executed(d, start_pc,
                    dispatch([d.s EXCEPT !.pc = wrapping_add_signed(@, d.size)],
                             d.insn, start_pc))
      [] d.kind = "err" ->
           [s |-> d.s, ret |-> "Ok",
            info |-> StepInfo("decode_err", NoInsn, 0, start_pc, {})]
      [] d.kind = "panic" ->
           [s |-> d.s, ret |-> "panic",
            info |-> StepInfo("decode_panic", NoInsn, 0, start_pc, {})]
      [] OTHER ->
           [s |-> d.s, ret |-> "panic",
            info |-> StepInfo("other", NoInsn, 0, start_pc, {})]

\* The fetch arm of execute_one.
fetch_and_execute(s0) == fetched(fetch_instruction(s0), s0.pc)

\* A variant of execute_one that counts the cycle only when no trap is
\* pending (the increment moved below the trap check).
execute_one_count_after_trap(s) ==
    LET s0 == IF s.should_trap THEN s ELSE [s EXCEPT !.cycles = @ + 1]
    IN IF s0.should_trap
       THEN LET t == exec_trap(s0)
            IN [s |-> t.s, ret |-> t.ret,
                info |-> StepInfo("trap_entry", NoInsn, 0, s0.pc, {})]
       ELSE IF s0.pc \in s0.breakpoints
       THEN [s |-> s0, ret |-> "HitBreakpoint",
             info |-> StepInfo("breakpoint", NoInsn, 0, s0.pc, {})]
       ELSE fetch_and_execute(s0)

\* A variant of execute_one that looks at the breakpoint set only after the
\* instruction at pc has been fetched and executed.
execute_one_break_after(s) ==
    LET s0 == [s EXCEPT !.cycles = @ + 1]
    IN IF s0.should_trap
       THEN LET t == exec_trap(s0)
            IN [s |-> t.s, ret |-> t.ret,
                info |-> StepInfo("trap_entry", NoInsn, 0, s0.pc, {})]
       ELSE IF s0.pc \in s0.breakpoints
       THEN [s |-> fetch_and_execute(s0).s, ret |-> "HitBreakpoint",
             info |-> StepInfo("breakpoint", NoInsn, 0, s0.pc, {})]
       ELSE fetch_and_execute(s0)

\* WhiskerCpu::execute_one.  The result is [s, ret, info] with ret = "Ok",
\* "HitBreakpoint", "panic" or "hang".
execute_one(s) ==
    LET s0 == [s EXCEPT !.cycles = @ + 1]
    IN IF s0.should_trap
       THEN LET t == exec_trap(s0)
            IN [s |-> t.s, ret |-> t.ret,
                info |-> StepInfo("trap_entry", NoInsn, 0, s0.pc, {})]
       ELSE IF s0.pc \in s0.breakpoints
       THEN [s |-> s0, ret |-> "HitBreakpoint",
             info |-> StepInfo("breakpoint", NoInsn, 0, s0.pc, {})]
       ELSE fetch_and_execute(s0)

(***************************************************************************)
(* Full-width integer operations.  A u64 is kept as four 16-bit limbs,     *)
(* least significant first, and a u32 / i32 as two, so that bit 31 and     *)
(* bits 63..32 of a register value are represented; the shifts work on the *)
(* bits of the value.                                                      *)
(***************************************************************************)
LIMB == Pow2(16)

\* Bit i of a value of n bits, as a function on 0..n-1.
BitsOf(v, n) == [i \in 0 .. (n - 1) |-> (v[(i \div 16) + 1] \div Pow2(i % 16)) % 2]

RECURSIVE LimbOf(_, _, _)
LimbOf(b, base, j) ==
    IF j < 0 THEN 0 ELSE b[base + j] * Pow2(j) + LimbOf(b, base, j - 1)

\* The value of n bits whose bits are b.
OfBits(b, n) == [k \in 1 .. (n \div 16) |-> LimbOf(b, 16 * (k - 1), 15)]

\* `as u32` of a u64, `as u64` of a u32 (zero-extends) and `as u64` of an
\* i32 (sign-extends).
as_u32(v) == <<v[1], v[2]>>
u32_as_u64(w) == <<w[1], w[2], 0, 0>>
i32_as_u64(w) ==
    IF w[2] >= 32768 THEN <<w[1], w[2], LIMB - 1, LIMB - 1>> ELSE <<w[1], w[2], 0, 0>>

\* u32::wrapping_add_signed(rhs: i32), for an rhs within 16 bits.
u32_wrapping_add_signed(w, rhs) ==
    LET lo == w[1] + (rhs % LIMB)
        hi == w[2] + (IF rhs < 0 THEN LIMB - 1 ELSE 0) + (lo \div LIMB)
    IN <<lo % LIMB, hi % LIMB>>

\* wrapping_shl / wrapping_shr of an n-bit unsigned value and wrapping_shr of
\* an n-bit signed one: the amount is taken modulo n.
wrapping_shl(v, n, rhs) ==
    LET b == BitsOf(v, n)
        k == rhs % n
    IN OfBits([i \in 0 .. (n - 1) |-> IF i >= k THEN b[i - k] ELSE 0], n)
wrapping_shr(v, n, rhs) ==
    LET b == BitsOf(v, n)
        k == rhs % n
    IN OfBits([i \in 0 .. (n - 1) |-> IF i + k < n THEN b[i + k] ELSE 0], n)
wrapping_shr_signed(v, n, rhs) ==
    LET b == BitsOf(v, n)
        k == rhs % n
    IN OfBits([i \in 0 .. (n - 1) |-> IF i + k < n THEN b[i + k] ELSE b[n - 1]], n)

\* op_imm::consts and op_imm_32::consts: the shift kinds.
SHIFT_LOGICAL == 0
SHIFT_ARITHMETIC == 16
SHIFT_ARITHMETIC_WORD == 32

\* `itype.imm() as u32` as a [lo, hi] pair.
imm_as_u32(imm) == [lo |-> imm % LIMB, hi |-> IF imm < 0 THEN LIMB - 1 ELSE 0]

\* A shift instruction of IntInstruction.
ShiftInsn(op, itype, shift_amt) ==
    [ext |-> "Int", op |-> op, dst |-> itype.dst, lhs |-> itype.src,
     shift_amt |-> shift_amt]

\* The result of an IntInstruction parser: the instruction, or the abort of
\* unreachable! / unimplemented!.
InsnOk(insn) == [kind |-> "ok", insn |-> insn]
InsnPanic == [kind |-> "panic", insn |-> NoInsn]

\* IntInstruction::parse_op_imm, the arms SHIFT_LEFT_IMM | SHIFT_RIGHT_IMM.
parse_op_imm_shift(itype) ==
    LET shift_amt == extract_bits_32(imm_as_u32(itype.imm), 5, 11)
        shift_kind == extract_bits_32(imm_as_u32(itype.imm), 0, 4)
    IN CASE shift_kind = SHIFT_LOGICAL ->
              IF itype.func = 1
              THEN InsnOk(ShiftInsn("ShiftLeftLogicalImmediate", itype, shift_amt))
              ELSE InsnOk(ShiftInsn("ShiftRightLogicalImmediate", itype, shift_amt))
         [] shift_kind = SHIFT_ARITHMETIC ->
              IF itype.func = 5
              THEN InsnOk(ShiftInsn("ShiftRightArithmeticImmediate", itype, shift_amt))
              ELSE InsnPanic
         [] OTHER -> InsnPanic

\* IntInstruction::parse_op_imm_32.
parse_op_imm_32(itype) ==
    LET shift_amt == extract_bits_32(imm_as_u32(itype.imm), 5, 11)
        shift_kind == extract_bits_32(imm_as_u32(itype.imm), 0, 4)
    IN CASE itype.func = 0 ->
              InsnOk([ext |-> "Int", op |-> "AddImmediateWord", dst |-> itype.dst,
                      lhs |-> itype.src, rhs |-> itype.imm])
         [] itype.func \in {1, 5} ->
              CASE shift_kind = SHIFT_LOGICAL ->
                     IF itype.func = 1
                     THEN InsnOk(ShiftInsn("ShiftLeftLogicalImmediateWord", itype, shift_amt))
                     ELSE InsnOk(ShiftInsn("ShiftRightLogicalImmediateWord", itype, shift_amt))
                [] shift_kind = SHIFT_ARITHMETIC_WORD ->
                     IF itype.func = 5
                     THEN InsnOk(ShiftInsn("ShiftRightArithmeticImmediateWord", itype,
                                           shift_amt))
                     ELSE InsnPanic
                [] OTHER -> InsnPanic
         [] OTHER -> InsnPanic

\* The shift and word arms of execute_i_insn: the value written to the
\* destination when the lhs register holds lhs.
execute_i_insn_value(insn, lhs) ==
    CASE insn.op = "ShiftLeftLogicalImmediate" -> wrapping_shl(lhs, 64, insn.shift_amt)
      [] insn.op = "ShiftRightLogicalImmediate" -> wrapping_shr(lhs, 64, insn.shift_amt)
      [] insn.op = "ShiftRightArithmeticImmediate" ->
           wrapping_shr_signed(lhs, 64, insn.shift_amt)
      [] insn.op = "AddImmediateWord" ->
           u32_as_u64(u32_wrapping_add_signed(as_u32(lhs), insn.rhs))
      [] insn.op = "ShiftLeftLogicalImmediateWord" ->
           u32_as_u64(wrapping_shl(as_u32(lhs), 32, insn.shift_amt))
      [] insn.op = "ShiftRightLogicalImmediateWord" ->
           u32_as_u64(wrapping_shr(as_u32(lhs), 32, insn.shift_amt))
      [] insn.op = "ShiftRightArithmeticImmediateWord" ->
           i32_as_u64(wrapping_shr_signed(as_u32(lhs), 32, insn.shift_amt))

\* The integer unit before any instruction ran, and after the instruction of
\* parcel ran with the value lhs in its source register: r is the parser's
\* result.  An aborted parse leaves no destination value.
AluIdle == [kind |-> "idle"]
AluRan(parcel, lhs, r) ==
    [kind |-> r.kind, parcel |-> parcel, lhs |-> lhs, insn |-> r.insn,
     dst |-> IF r.kind = "ok" THEN execute_i_insn_value(r.insn, lhs) ELSE <<>>]

(***************************************************************************)
(* Single-precision values (soft/float.rs, soft.rs).  A SoftFloat is the   *)
(* u32 of its bits, kept as <<lo, hi>> 16-bit halves.                      *)
(***************************************************************************)
\* SoftFloat::MANTISSA_BITS, EXPONENT_BITS, EXPONENT_MASK.
MANTISSA_BITS == 23
EXPONENT_BITS == 32 - MANTISSA_BITS - 1
EXPONENT_MASK == Pow2(EXPONENT_BITS) - 1

\* SoftFloat::get_sign, get_exponent, get_mantissa.
get_sign(v) == v[2] \div 32768
get_exponent(v) == (v[2] \div 128) % (EXPONENT_MASK + 1)
get_mantissa(v) == (v[2] % 128) * Pow2(16) + v[1]

\* SoftFloat::is_nan.
is_nan(v) == get_exponent(v) = EXPONENT_BITS /\ get_mantissa(v) # 0

\* SoftFloat::is_snan: an exponent of all ones and a nonzero mantissa with
\* the quiet bit (bit 22) clear, the SignalingNaN class of fclass.
is_snan(v) ==
    /\ get_exponent(v) = EXPONENT_MASK
    /\ get_mantissa(v) # 0
    /\ (get_mantissa(v) \div Pow2(MANTISSA_BITS - 1)) % 2 = 0

\* softfloat's f32_eq and f32_lt: false when an operand is a NaN; the zeros
\* of both signs are equal; otherwise the order of sign and magnitude.
sf_is_nan(v) == get_exponent(v) = 255 /\ get_mantissa(v) # 0
sf_magnitude(v) == (v[2] % 32768) * Pow2(16) + v[1]
f32_eq(a, b) ==
    /\ ~sf_is_nan(a) /\ ~sf_is_nan(b)
    /\ a = b \/ (sf_magnitude(a) = 0 /\ sf_magnitude(b) = 0)
f32_lt(a, b) ==
    /\ ~sf_is_nan(a) /\ ~sf_is_nan(b)
    /\ IF get_sign(a) # get_sign(b)
       THEN get_sign(a) = 1 /\ (sf_magnitude(a) # 0 \/ sf_magnitude(b) # 0)
       ELSE a # b /\ ((get_sign(a) = 1) # (sf_magnitude(a) < sf_magnitude(b)))

\* PartialOrd::partial_cmp of SoftFloat: "None" or an Ordering.
partial_cmp(a, b) ==
    IF is_nan(a) \/ is_nan(b) THEN "None"
    ELSE IF f32_eq(a, b) THEN "Equal"
    ELSE IF f32_lt(a, b) THEN "Less"
    ELSE "Greater"

\* ExceptionFlags::FLAG_INVALID (softfloat_flag_invalid).
FLAG_INVALID == 16

\* The arms Equal, LessThan and LessOrEqual of execute_f_insn, with the
\* floats lhs and rhs in the source registers.
exec_f_compare(s, insn, lhs, rhs) ==
    LET cmp == partial_cmp(lhs, rhs)
        raised == [s EXCEPT !.csrs[FCSR] = BitOr(s.csrs[FCSR], FLAG_INVALID)]
    IN IF cmp = "None"
       THEN IF insn.op = "Equal" /\ ~(is_snan(lhs) \/ is_snan(rhs))
            THEN [s EXCEPT !.registers = GPSet(@, insn.dst, 0)]
            ELSE [raised EXCEPT !.registers = GPSet(@, insn.dst, 0)]
       ELSE [s EXCEPT !.registers =
                 GPSet(@, insn.dst,
                       CASE insn.op = "Equal" -> IF cmp = "Equal" THEN 1 ELSE 0
                         [] insn.op = "LessThan" -> IF cmp = "Less" THEN 1 ELSE 0
                         [] OTHER -> IF cmp \in {"Less", "Equal"} THEN 1 ELSE 0)]

\* RoundingMode as its discriminant, and softfloat's rounding modes.
Dynamic == 7
softfloat_round_near_even == 0
softfloat_round_minMag == 1
softfloat_round_min == 2
softfloat_round_max == 3
softfloat_round_near_maxMag == 4

\* RoundingMode::to_sf_u8 of a static mode.
to_sf_u8(rm) ==
    CASE rm = 0 -> softfloat_round_near_even
      [] rm = 1 -> softfloat_round_minMag
      [] rm = 2 -> softfloat_round_min
      [] rm = 3 -> softfloat_round_max
      [] rm = 4 -> softfloat_round_near_maxMag

\* FCSR_ROUNDING_MODE_MASK.
FCSR_ROUNDING_MODE_MASK == 224

\* RoundingMode::write_thread_local: the value handed to softfloat.  In
\* `read_fcsr() & FCSR_ROUNDING_MODE_MASK >> 5` the shift binds tighter
\* than the &.
write_thread_local(rm, s) ==
    IF rm = Dynamic
    THEN BitAnd(s.csrs[FCSR], FCSR_ROUNDING_MODE_MASK \div Pow2(5)) % 256
    ELSE to_sf_u8(rm)

\* The float unit before any instruction, after a compare and after an
\* arithmetic instruction of rounding mode rm; before is the fcsr the
\* instruction found.
FpuIdle == [kind |-> "idle"]
FpuCompared(insn, lhs, rhs, before) ==
    [kind |-> "compare", insn |-> insn, lhs |-> lhs, rhs |-> rhs, before |-> before]
FpuRounded(rm, mode, before) ==
    [kind |-> "arith", rm |-> rm, mode |-> mode, before |-> before]

(***************************************************************************)
(* Guest programs: RV64 encodings, assembled into the bootrom image.       *)
(***************************************************************************)
\* The 4 bytes of a 32-bit instruction given as its two 16-bit halves.
Word(lo, hi) == <<lo % 256, lo \div 256, hi % 256, hi \div 256>>
Half(h) == <<h % 256, h \div 256>>

EncI(imm, rs1, f3, rd, opc) ==
    Word(opc + rd * 128 + f3 * 4096 + (rs1 % 2) * 32768,
         (rs1 \div 2) + (imm % 4096) * 16)
EncS(imm, rs2, rs1, f3, opc) ==
    Word(opc + ((imm % 4096) % 32) * 128 + f3 * 4096 + (rs1 % 2) * 32768,
         (rs1 \div 2) + rs2 * 16 + ((imm % 4096) \div 32) * 512)
EncR(f7, rs2, rs1, f3, rd, opc) ==
    Word(opc + rd * 128 + f3 * 4096 + (rs1 % 2) * 32768,
         (rs1 \div 2) + rs2 * 16 + f7 * 512)
EncU(imm20, rd, opc) ==
    Word(opc + rd * 128 + (imm20 % 16) * 4096, imm20 \div 16)
EncJ(imm, rd) ==
    LET i == imm % 2097152
    IN Word(111 + rd * 128 + ((i \div 4096) % 16) * 4096,
            ((i \div 65536) % 16) + ((i \div 2048) % 2) * 16
            + ((i \div 2) % 1024) * 32 + (i \div 1048576) * 32768)

ADDI(rd, rs1, imm) == EncI(imm, rs1, 0, rd, 19)
LUI(rd, imm20) == EncU(imm20, rd, 55)
AUIPC(rd, imm20) == EncU(imm20, rd, 23)
JAL(rd, imm) == EncJ(imm, rd)
JALR(rd, rs1, imm) == EncI(imm, rs1, 0, rd, 103)
LW(rd, rs1, imm) == EncI(imm, rs1, 2, rd, 3)
LD(rd, rs1, imm) == EncI(imm, rs1, 3, rd, 3)
SB(rs2, rs1, imm) == EncS(imm, rs2, rs1, 0, 35)
SH(rs2, rs1, imm) == EncS(imm, rs2, rs1, 1, 35)
SW(rs2, rs1, imm) == EncS(imm, rs2, rs1, 2, 35)
SD(rs2, rs1, imm) == EncS(imm, rs2, rs1, 3, 35)
ECALL == EncI(0, 0, 0, 0, 115)
CSR(func3, rd, csr, src) == EncI(csr, src, func3, rd, 115)
EBREAK == EncI(1, 0, 0, 0, 115)
LR_W(rd, rs1) == EncR(8, 0, rs1, 2, rd, 47)
SC_W(rd, rs2, rs1) == EncR(12, rs2, rs1, 2, rd, 47)
LR_D(rd, rs1) == EncR(8, 0, rs1, 3, rd, 47)
SC_D(rd, rs2, rs1) == EncR(12, rs2, rs1, 3, rd, 47)
\* lr.w with a nonzero rs2 field: the decoder rejects it.
LR_W_BAD(rd, rs1) == EncR(8, 1, rs1, 2, rd, 47)
\* amo<op>.w (f3 = 2) and amo<op>.d (f3 = 3): func5 in bits 27..31, aq = rl = 0.
AMO(func5, f3, rd, rs2, rs1) == EncR(func5 * 4, rs2, rs1, f3, rd, 47)

C_NOP == Half(1)
C_ADDI(rd, imm) == Half(1 + ((imm % 64) % 32) * 4 + rd * 128 + ((imm % 64) \div 32) * 4096)
\* c.addiw with rd = 0: reserved.
C_ADDIW_RES == Half(8193 + 4)
\* c.jr rs1 and c.jalr rs1: quadrant 2, func 1000 and 1001, rs2 = 0.
C_JR(rs1) == Half(2 + rs1 * 128 + JR_MV * 4096)
C_JALR(rs1) == Half(2 + rs1 * 128 + JALR_EBREAK_ADD * 4096)

RECURSIVE Flatten(_)
Flatten(ss) == IF ss = <<>> THEN <<>> ELSE Head(ss) \o Flatten(Tail(ss))

\* Offsets of the nonzero bytes mapped to the bytes.
ImageOf(bytes) ==
    [off \in {i - 1 : i \in {j \in 1 .. Len(bytes) : bytes[j] # 0}} |-> bytes[off + 1]]

\* The bootrom image: the program's bytes, zero-padded to a page.
Image(prog) == ImageOf(Flatten(prog))

Programs ==
    [ count |-> <<ADDI(1, 1, 1), JAL(0, -4)>>,
      trap  |-> <<ADDI(1, 0, 5), ECALL, ADDI(2, 0, 7), EBREAK>>,
      fault |-> <<LUI(1, 10), ADDI(2, 0, 1963), SW(2, 1, -2), ADDI(3, 0, 1)>>,
      lrsc  |-> <<LUI(1, 8), ADDI(2, 0, 77), LR_W(3, 1), SC_W(4, 2, 1), SC_W(5, 2, 1),
                  LR_D(6, 1), SC_D(7, 2, 1), JAL(0, 0)>>,
      lrst  |-> <<LUI(1, 8), ADDI(2, 0, 77), LR_D(3, 1), SB(2, 1, 63), SC_D(4, 2, 1),
                  LR_W(3, 1), SW(2, 1, 64), SC_W(4, 2, 1), JAL(0, 0)>>,
      bad   |-> <<ADDI(1, 0, 3), LR_W_BAD(3, 1), ADDI(2, 0, 7)>>,
      x0    |-> <<ADDI(0, 0, 5), LUI(0, 3), LUI(1, 8), SD(1, 1, 0), LR_W(0, 1),
                  SC_W(0, 1, 1), LD(0, 1, 0), JALR(0, 0, 0)>>,
      lrmix |-> <<LUI(1, 8), ADDI(2, 0, 77), LR_D(3, 1), SC_W(4, 2, 1), LUI(1, 10),
                  ADDI(1, 1, -4), LR_W(3, 1), SC_D(5, 2, 1), JAL(0, 0)>>,
      alias |-> <<LUI(1, 8), LUI(2, 16), LR_W(3, 1), SW(2, 2, 8), SC_W(4, 2, 1),
                  LR_W(3, 1), SC_W(5, 1, 2), JAL(0, 0)>>,
      comp  |-> <<C_NOP, C_ADDI(1, 3), C_ADDIW_RES, C_NOP>>,
      zero  |-> <<AUIPC(1, 0)>> ]

\* The extension sets main.rs enables, and the same without Compressed.
FullExtensions == {"INTEGER", "FLOAT", "COMPRESSED", "ATOMIC", "MULTIPLY"}
ExtensionSets == {FullExtensions, FullExtensions \ {"COMPRESSED"}}

\* MemoryBuilder::build: zeroed physical buffer, the bootrom image, no
\* reservation, the lock free.
MemNew(image) ==
    [phys |-> <<>>, bootrom |-> image, reservations |-> <<>>, atomic_lock |-> FALSE,
     unlocked_reservation |-> FALSE]

\* Inputs of the debugger commands.
BreakpointAddrs == {BOOTROM_OFFSET, BOOTROM_OFFSET + 4, BOOTROM_OFFSET + 8}
RegisterFiles ==
    { [x |-> [i \in RegIdx |-> CASE i = 1 -> DRAM_BASE [] i = 2 -> 9 [] OTHER -> 0],
       f |-> [i \in RegIdx |-> IF i = 0 THEN 5 ELSE 0],
       pc |-> BOOTROM_OFFSET + 4],
      [x |-> [i \in RegIdx |-> IF i = 0 THEN 9 ELSE 0],
       f |-> [i \in RegIdx |-> 0],
       pc |-> BOOTROM_OFFSET] }
\* EREMOTEIO, the errno of a failed write_addrs.
EREMOTEIO == 121

\* What read_addrs returns for the result r of read_slice: Ok(data.len()),
\* or Ok(addr - start_addr) for the failing address addr.
\* A variant that reports the whole buffer as read.
read_addrs_whole_buffer(r, start_addr, len) ==
    IF r.kind = "panic" THEN [result |-> "panic"] ELSE [result |-> "Ok", n |-> len]

read_addrs(r, start_addr, len) ==
    CASE r.kind = "ok" -> [result |-> "Ok", n |-> len]
      [] r.kind = "err" -> [result |-> "Ok", n |-> r.addr - start_addr]
      [] OTHER -> [result |-> "panic"]

\* What write_addrs returns for the result r of write_slice.
write_addrs(r) ==
    CASE r.kind = "ok" -> [result |-> "Ok"]
      [] r.kind = "err" -> [result |-> "Errno", errno |-> EREMOTEIO]
      [] OTHER -> [result |-> "panic"]

\* The debugger's accesses: none yet, or the seq-th debugger command, a read
\* or a write of len bytes at start_addr, answered with ret, or a write of
\* the register file regs.
NoReply == [op |-> "none", seq |-> 0]
ReadReply(seq, start_addr, len, ret) ==
    [op |-> "read", seq |-> seq, start_addr |-> start_addr, len |-> len, ret |-> ret]
WriteReply(seq, start_addr, len, ret) ==
    [op |-> "write", seq |-> seq, start_addr |-> start_addr, len |-> len, ret |-> ret]
RegistersReply(seq, regs) == [op |-> "write_registers", seq |-> seq, regs |-> regs]

\* The ranges the debugger reads: inside DRAM, across the end of DRAM into
\* the unmapped page, inside the unmapped page, the bootrom, the alias page
\* and the UART.
MemoryReads ==
    { [start_addr |-> DRAM_BASE, len |-> 2],
      [start_addr |-> DRAM_BASE + DRAM_SIZE - 1, len |-> 2],
      [start_addr |-> DRAM_BASE + DRAM_SIZE - 2, len |-> 3],
      [start_addr |-> DRAM_BASE + DRAM_SIZE, len |-> 1],
      [start_addr |-> BOOTROM_OFFSET, len |-> 4],
      [start_addr |-> ALIAS_BASE + 8, len |-> 1],
      [start_addr |-> UART_ADDR, len |-> 1] }
MemoryWrites ==
    { [start_addr |-> DRAM_BASE, data |-> <<17, 34>>],
      [start_addr |-> DRAM_BASE + DRAM_SIZE - 1, data |-> <<51, 68>>],
      [start_addr |-> ALIAS_BASE + 8, data |-> <<85>>] }

VARIABLES
    supported_extensions, mem, registers, fp_registers, should_trap, csrs,
    pc, cycles, exec_state, breakpoints,
    panicked,   \* the process aborted or hangs: nothing runs any more
    in_call,    \* a Running exec_gdb call is inside its loop
    status,     \* what the last exec_gdb call returned ("none" before any)
    incoming,   \* the connection holds unread data: what the poll callback reports
    dbg_ops,    \* state-changing debugger commands issued so far
    nsteps,     \* execute_one calls made so far
    since_poll, \* steps the current Running call made since it last consulted poll
    last,       \* StepInfo of the latest step
    lr,         \* load-reserved addresses with no store to their line since
    builder,    \* the MemoryBuilder: BuilderOk(b), or BuilderPanic after a failed assert
    calls,      \* the builder calls made so far, build excluded
    built,      \* <<>> before build ran, then <<what build returned>>
    alu,        \* the latest integer instruction run on full-width operands
    fpu,        \* the latest float instruction: its operands and what it used
    reply       \* the debugger's latest access and what it was answered

cpuvars == <<supported_extensions, mem, registers, fp_registers, should_trap, csrs,
             pc, cycles, exec_state, breakpoints>>
vars == <<supported_extensions, mem, registers, fp_registers, should_trap, csrs,
          pc, cycles, exec_state, breakpoints, panicked, in_call, status, incoming,
          dbg_ops, nsteps, since_poll, last, lr, builder, calls, built, alu, fpu, reply>>
buildvars == <<builder, calls, built, alu, fpu, reply>>

\* The CPU value held by the variables.
Cpu ==
    [ supported_extensions |-> supported_extensions, mem |-> mem,
      registers |-> registers, fp_registers |-> fp_registers,
      should_trap |-> should_trap, csrs |-> csrs, pc |-> pc, cycles |-> cycles,
      exec_state |-> exec_state, breakpoints |-> breakpoints ]

SetCpu(s) ==
    /\ supported_extensions' = s.supported_extensions
    /\ mem' = s.mem
    /\ registers' = s.registers
    /\ fp_registers' = s.fp_registers
    /\ should_trap' = s.should_trap
    /\ csrs' = s.csrs
    /\ pc' = s.pc
    /\ cycles' = s.cycles
    /\ exec_state' = s.exec_state
    /\ breakpoints' = s.breakpoints

\* The CPU variables hold the CPU value s.
CpuIs(s) ==
    /\ supported_extensions = s.supported_extensions
    /\ mem = s.mem
    /\ registers = s.registers
    /\ fp_registers = s.fp_registers
    /\ should_trap = s.should_trap
    /\ csrs = s.csrs
    /\ pc = s.pc
    /\ cycles = s.cycles
    /\ exec_state = s.exec_state
    /\ breakpoints = s.breakpoints

(***************************************************************************)
(* The construction of the memory.                                         *)
(***************************************************************************)
\* One builder call c applied to the builder value b.
ApplyCall(b, c) ==
    CASE c.op = "bootrom" -> builder_bootrom(b, c.len, c.addr)
      [] c.op = "physical_size" -> builder_physical_size(b, c.size)
      [] c.op = "phys_mapping" -> builder_phys_mapping(b, c.virt, c.phys, c.size)
      [] OTHER -> builder_add_mapping(b, c.virt, [kind |-> "MMIO"])

\* The calls cs from the i-th on, applied in order until one panics.
RECURSIVE ApplyCalls(_, _, _)
ApplyCalls(r, cs, i) ==
    IF r.kind = "panic" \/ i > Len(cs) THEN r
    ELSE ApplyCalls(ApplyCall(r.b, cs[i]), cs, i + 1)

\* The builder calls of init_cpu, for the memory layout of this model.
InitCpuCalls ==
    << [op |-> "bootrom", len |-> BOOTROM_LEN, addr |-> BOOTROM_OFFSET],
       [op |-> "physical_size", size |-> PHYS_SIZE],
       [op |-> "phys_mapping", virt |-> DRAM_BASE, phys |-> 0, size |-> DRAM_SIZE],
       [op |-> "phys_mapping", virt |-> ALIAS_BASE, phys |-> 0, size |-> PAGE_SIZE],
       [op |-> "add_mapping", virt |-> UART_ADDR] >>

\* init_cpu has built the memory the CPU runs on.
BuiltByInitCpu ==
    /\ calls = InitCpuCalls
    /\ builder = ApplyCalls(BuilderOk(MemoryBuilderDefault), InitCpuCalls, 1)
    /\ \E po \in IterOrders(DOMAIN builder.b.physical_mappings),
          mo \in IterOrders(DOMAIN builder.b.misc_maps) :
          built = <<build(builder.b, po, mo)>>
    /\ alu = AluIdle
    /\ fpu = FpuIdle
    /\ reply = NoReply

InitWith(progs) ==
    /\ \E name \in progs, ext \in ExtensionSets :
         CpuIs(CpuNew(ext, MemNew(Image(Programs[name]))))
    /\ panicked = FALSE
    /\ in_call = FALSE
    /\ status = "none"
    /\ incoming = FALSE
    /\ dbg_ops = 0
    /\ nsteps = 0
    /\ since_poll = 0
    /\ last = StepInfo("none", NoInsn, 0, 0, {})
    /\ lr = {}
    /\ BuiltByInitCpu

Init == InitWith(DOMAIN Programs)

(***************************************************************************)
(* Bookkeeping for the properties.                                         *)
(***************************************************************************)
\* lr after a step: entries on a stored-to line go, a completed load-reserved
\* adds its address.
LrAfterStep(r) ==
    LET kept == {e \in lr : e.line \notin r.info.touched}
    IN IF r.info.kind = "executed" /\ r.info.insn.op = "LoadReserved" /\ r.ret = "Ok"
       THEN LET addr == GPGet(registers, r.info.insn.src)
            IN kept \cup {[addr |-> addr, width |-> r.info.insn.width,
                           line |-> LineOf(translate_address(addr).phys)]}
       ELSE kept

\* The variables after one execute_one call with result r.
ApplyStep(r) ==
    /\ SetCpu(r.s)
    /\ panicked' = (r.ret \in {"panic", "hang"})
    /\ nsteps' = nsteps + 1
    /\ last' = r.info
    /\ lr' = LrAfterStep(r)

(***************************************************************************)
(* exec_gdb (cpu.rs), one action per arm; the Running arm one loop          *)
(* iteration at a time.                                                    *)
(***************************************************************************)
\* The return of the Step arm: Ok(()) is Stepped, Err(e) is e.
StepReturns(r) ==
    /\ ApplyStep(r)
    /\ status' = CASE r.ret = "Ok" -> "Stepped"
                   [] r.ret = "HitBreakpoint" -> "HitBreakpoint"
                   [] OTHER -> status

\* exec_state = Step: one execute_one, Stepped or the error status.
ExecGdbStep ==
    /\ ~panicked /\ ~in_call
    /\ exec_state = "Step"
    /\ \E r \in {execute_one(Cpu)} : StepReturns(r)
    /\ UNCHANGED <<in_call, incoming, dbg_ops, since_poll>>
    /\ UNCHANGED buildvars

\* A variant of the Paused arm that runs one step before reporting Paused.
ExecGdbPaused_steps ==
    /\ ~panicked /\ ~in_call
    /\ exec_state = "Paused"
    /\ \E r \in {execute_one(Cpu)} : ApplyStep(r)
    /\ status' = "Paused"
    /\ UNCHANGED <<in_call, incoming, dbg_ops, since_poll>>
    /\ UNCHANGED buildvars

\* exec_state = Paused: Some(Paused), nothing runs.
ExecGdbPaused ==
    /\ ~panicked /\ ~in_call
    /\ exec_state = "Paused"
    /\ status' = "Paused"
    /\ UNCHANGED <<cpuvars, panicked, in_call, incoming, dbg_ops, nsteps, since_poll,
                   last, lr>>
    /\ UNCHANGED buildvars

\* exec_state = Running, loop head: should_poll() && poll_incoming_data()
\* holds, the call returns None.
ExecGdbRunPoll ==
    /\ ~panicked
    /\ exec_state = "Running"
    /\ should_poll(Cpu) /\ incoming
    /\ status' = "None"
    /\ in_call' = FALSE
    /\ since_poll' = 0
    /\ UNCHANGED <<cpuvars, panicked, incoming, dbg_ops, nsteps, last, lr>>
    /\ UNCHANGED buildvars

\* One pass of the Running loop's body: Err(e) returns e, Ok(()) loops.
RunStepReturns(r) ==
    /\ ApplyStep(r)
    /\ status' = IF r.ret = "HitBreakpoint" THEN "HitBreakpoint" ELSE status
    /\ in_call' = (r.ret # "HitBreakpoint")

\* exec_state = Running, the rest of an iteration: execute_one; an Err ends
\* the call, Ok goes round the loop.
ExecGdbRunStep ==
    /\ ~panicked
    /\ exec_state = "Running"
    /\ ~(should_poll(Cpu) /\ incoming)
    /\ \E r \in {execute_one(Cpu)} : RunStepReturns(r)
    /\ since_poll' = (IF should_poll(Cpu) \/ ~in_call THEN 0 ELSE since_poll) + 1
    /\ UNCHANGED <<incoming, dbg_ops>>
    /\ UNCHANGED buildvars

(***************************************************************************)
(* The debugger adapter (gdb.rs).  Commands arrive between exec_gdb calls. *)
(***************************************************************************)
Idle == ~panicked /\ ~in_call

\* Data arrives on the connection.
DataArrives ==
    /\ ~panicked /\ ~incoming
    /\ incoming' = TRUE
    /\ UNCHANGED <<cpuvars, panicked, in_call, status, dbg_ops, nsteps, since_poll, last, lr>>
    /\ UNCHANGED buildvars

\* SingleThreadResume::resume.
DbgResume ==
    /\ Idle
    /\ exec_state' = "Running"
    /\ UNCHANGED <<supported_extensions, mem, registers, fp_registers, should_trap, csrs,
                   pc, cycles, breakpoints, panicked, in_call, status, incoming,
                   dbg_ops, nsteps, since_poll, last, lr>>
    /\ UNCHANGED buildvars

\* SingleThreadSingleStep::step.
DbgStep ==
    /\ Idle
    /\ exec_state' = "Step"
    /\ UNCHANGED <<supported_extensions, mem, registers, fp_registers, should_trap, csrs,
                   pc, cycles, breakpoints, panicked, in_call, status, incoming,
                   dbg_ops, nsteps, since_poll, last, lr>>
    /\ UNCHANGED buildvars

\* WhiskerEventLoop::on_interrupt: the pending data was an interrupt request.
OnInterrupt ==
    /\ Idle /\ incoming
    /\ exec_state' = "Paused"
    /\ incoming' = FALSE
    /\ UNCHANGED <<supported_extensions, mem, registers, fp_registers, should_trap, csrs,
                   pc, cycles, breakpoints, panicked, in_call, status,
                   dbg_ops, nsteps, since_poll, last, lr>>
    /\ UNCHANGED buildvars

\* SwBreakpoint::add_sw_breakpoint.
AddBreakpoint ==
    /\ Idle /\ dbg_ops < MaxDbgOps
    /\ \E addr \in BreakpointAddrs : breakpoints' = breakpoints \cup {addr}
    /\ dbg_ops' = dbg_ops + 1
    /\ UNCHANGED <<supported_extensions, mem, registers, fp_registers, should_trap, csrs,
                   pc, cycles, exec_state, panicked, in_call, status, incoming,
                   nsteps, since_poll, last, lr>>
    /\ UNCHANGED buildvars

\* SwBreakpoint::remove_sw_breakpoint.
RemoveBreakpoint ==
    /\ Idle /\ dbg_ops < MaxDbgOps
    /\ \E addr \in BreakpointAddrs : breakpoints' = breakpoints \ {addr}
    /\ dbg_ops' = dbg_ops + 1
    /\ UNCHANGED <<supported_extensions, mem, registers, fp_registers, should_trap, csrs,
                   pc, cycles, exec_state, panicked, in_call, status, incoming,
                   nsteps, since_poll, last, lr>>
    /\ UNCHANGED buildvars

\* SingleThreadBase::write_registers: the assert on x[0], then set_all,
\* set_all_raw and pc.
WriteRegisters ==
    /\ Idle /\ dbg_ops < MaxDbgOps
    /\ \E regs \in RegisterFiles :
         /\ IF regs.x[0] # 0
            THEN /\ panicked' = TRUE
                 /\ UNCHANGED <<registers, fp_registers, pc>>
            ELSE /\ registers' = GPSetAll(registers, regs.x)
                 /\ fp_registers' = FPSetAllRaw(fp_registers, regs.f)
                 /\ pc' = regs.pc
                 /\ UNCHANGED panicked
         /\ reply' = RegistersReply(dbg_ops + 1, regs)
    /\ dbg_ops' = dbg_ops + 1
    /\ UNCHANGED <<supported_extensions, mem, should_trap, csrs, cycles, exec_state,
                   breakpoints, in_call, status, incoming, nsteps, since_poll, last, lr>>
    /\ UNCHANGED <<builder, calls, built, alu, fpu>>

\* The effect of write_addrs whose write_slice returned r.
WriteAddrsResult(r) ==
    /\ mem' = r.mem
    /\ panicked' = (r.kind = "panic")
    /\ lr' = {e \in lr : e.line \notin r.touched}

\* SingleThreadBase::write_addrs: write_slice; a failure is reported to the
\* debugger as Errno(EREMOTEIO), the bytes already written stay.
WriteAddrs ==
    /\ Idle /\ dbg_ops < MaxDbgOps
    /\ \E w \in MemoryWrites :
          /\ WriteAddrsResult(write_slice(mem, w.start_addr, w.data))
          /\ reply' = WriteReply(dbg_ops + 1, w.start_addr, Len(w.data),
                                 write_addrs(write_slice(mem, w.start_addr, w.data)))
    /\ dbg_ops' = dbg_ops + 1
    /\ UNCHANGED <<supported_extensions, registers, fp_registers, should_trap, csrs, pc,
                   cycles, exec_state, breakpoints, in_call, status, incoming, nsteps,
                   since_poll, last>>
    /\ UNCHANGED <<builder, calls, built, alu, fpu>>

\* SingleThreadBase::read_addrs: read_slice into the debugger's buffer; the
\* read callback of the UART aborts.
ReadAddrs ==
    /\ Idle /\ dbg_ops < MaxDbgOps
    /\ \E r \in MemoryReads :
          /\ reply' = ReadReply(dbg_ops + 1, r.start_addr, r.len,
                                read_addrs(read_slice(mem, r.start_addr, r.len),
                                           r.start_addr, r.len))
          /\ panicked' = (read_slice(mem, r.start_addr, r.len).kind = "panic")
    /\ dbg_ops' = dbg_ops + 1
    /\ UNCHANGED <<cpuvars, in_call, status, incoming, nsteps, since_poll, last, lr>>
    /\ UNCHANGED <<builder, calls, built, alu, fpu>>

(***************************************************************************)
(* Specifications.                                                         *)
(***************************************************************************)
Debugger ==
    \/ DataArrives
    \/ DbgResume
    \/ DbgStep
    \/ OnInterrupt
    \/ AddBreakpoint
    \/ RemoveBreakpoint
    \/ WriteRegisters
    \/ WriteAddrs
    \/ ReadAddrs

Next ==
    \/ cycles < MaxCycles /\ ExecGdbStep
    \/ cycles < MaxCycles /\ ExecGdbRunStep
    \/ ExecGdbRunPoll
    \/ ExecGdbPaused
    \/ Debugger

Spec == Init /\ [][Next]_vars

\* The model's values stay in the range TLC computes in, and no instruction
\* outside the executed subset is met.
ValuesInRange ==
    /\ \A i \in RegIdx : registers[i] >= 0
    /\ pc >= 0
Modelled == last.kind # "other"

\* The run loop on its own: a guest that loops and a guest that traps, run
\* for more than one poll interval, with the adapter resuming and interrupting.
InitRun == InitWith({"count", "trap"})

NextRun ==
    \/ cycles < PollInterval + RunSlack /\ ExecGdbRunStep
    \/ ExecGdbRunPoll
    \/ ExecGdbPaused
    \/ DataArrives
    \/ DbgResume
    \/ OnInterrupt

SpecRun == InitRun /\ [][NextRun]_vars

\* The loop body can run: what ENABLED <<ExecGdbRunStep>>_vars amounts to
\* under the cycle bound (execute_one is total and every step changes nsteps).
RunStepEnabled ==
    /\ cycles < PollInterval + RunSlack
    /\ ~panicked
    /\ exec_state = "Running"
    /\ ~(should_poll(Cpu) /\ incoming)

\* The run loop is code in execution: the host thread keeps going round it,
\* so the poll at the loop head and the loop body are both weakly fair.  The
\* fairness of the body is WF_vars(cycles < PollInterval + RunSlack /\
\* ExecGdbRunStep) written out by its definition, with RunStepEnabled for
\* the ENABLED predicate.
SpecRunFair ==
    /\ InitRun
    /\ [][NextRun]_vars
    /\ WF_vars(ExecGdbRunPoll)
    /\ \/ []<>(~RunStepEnabled)
       \/ []<><<cycles < PollInterval + RunSlack /\ ExecGdbRunStep>>_vars

\* Guests for the read-modify-write instructions: the doubleword at DRAM_BASE
\* is set to m, x2 to v, and one instruction with every func5, both widths
\* and several destination registers (x0, the address register, src2 and a
\* free register) is applied to it.
AmoFunc5 == {1, 0, 4, 12, 8, 16, 20, 24, 28}
AmoOperands == {<<3, 5>>, <<5, 3>>, <<6, 6>>}
AmoDsts == {0, 1, 2, 4}
AmoPrograms ==
    { <<LUI(1, 8), ADDI(2, 0, mv[2]), ADDI(3, 0, mv[1]), SD(3, 1, 0),
        AMO(f5, f3, rd, 2, 1), JAL(0, 0)>> :
        f5 \in AmoFunc5, f3 \in {2, 3}, rd \in AmoDsts, mv \in AmoOperands }

InitAmo ==
    /\ \E prog \in AmoPrograms : CpuIs(CpuNew(FullExtensions, MemNew(Image(prog))))
    /\ panicked = FALSE
    /\ in_call = FALSE
    /\ status = "none"
    /\ incoming = FALSE
    /\ dbg_ops = 0
    /\ nsteps = 0
    /\ since_poll = 0
    /\ last = StepInfo("none", NoInsn, 0, 0, {})
    /\ lr = {}
    /\ BuiltByInitCpu

\* The debugger single-steps the guest.
NextAmo ==
    \/ DbgStep
    \/ cycles < MaxCycles /\ ExecGdbStep

SpecAmo == InitAmo /\ [][NextAmo]_vars

\* Guests for the memory round trip: x1 is set to an address a (the start of
\* DRAM, 4 bytes before a line boundary, 4 bytes before the page boundary
\* inside DRAM, and inside the alias page), x2 to a value v; the guest puts
\* other bytes at a + 4, stores v as a doubleword at a, stores a byte at
\* a + 8 and loads the doubleword at a.
MemBases == {<<8, 0>>, <<8, 60>>, <<9, -4>>, <<16, 8>>}
MemValues == {ADDI(2, 0, 77), LUI(2, 74565)}
MemPrograms ==
    { <<LUI(1, b[1]), ADDI(1, 1, b[2]), v, ADDI(4, 0, 1963), SW(4, 1, 4),
        SD(2, 1, 0), SB(4, 1, 8), LD(3, 1, 0), JAL(0, 0)>> :
        b \in MemBases, v \in MemValues }

InitMem ==
    /\ \E prog \in MemPrograms : CpuIs(CpuNew(FullExtensions, MemNew(Image(prog))))
    /\ panicked = FALSE
    /\ in_call = FALSE
    /\ status = "none"
    /\ incoming = FALSE
    /\ dbg_ops = 0
    /\ nsteps = 0
    /\ since_poll = 0
    /\ last = StepInfo("none", NoInsn, 0, 0, {})
    /\ lr = {}
    /\ BuiltByInitCpu

\* The debugger single-steps the guest and writes memory.
NextMem ==
    \/ DbgStep
    \/ cycles < MaxCycles /\ ExecGdbStep
    \/ WriteAddrs

SpecMem == InitMem /\ [][NextMem]_vars

(***************************************************************************)
(* A specification for page faults: the guests load or store, at every     *)
(* width, across the end of DRAM, across the end of the alias page and in   *)
(* unmapped pages, and the debugger single-steps them.                     *)
(***************************************************************************)
\* x1 is set to a page base; the access is at x1 + offset.
FaultBases == {<<10, -2>>, <<10, 0>>, <<17, -1>>, <<12, 5>>}
FaultAccesses(off) ==
    {LW(3, 1, off), LD(3, 1, off), SB(2, 1, off), SH(2, 1, off), SW(2, 1, off),
     SD(2, 1, off)}
FaultPrograms ==
    UNION { { <<LUI(1, b[1]), ADDI(3, 0, 55), ADDI(2, 0, 1963), acc, ADDI(5, 0, 1)>> :
                acc \in FaultAccesses(b[2]) } : b \in FaultBases }

InitFault ==
    /\ \E prog \in FaultPrograms : CpuIs(CpuNew(FullExtensions, MemNew(Image(prog))))
    /\ panicked = FALSE
    /\ in_call = FALSE
    /\ status = "none"
    /\ incoming = FALSE
    /\ dbg_ops = 0
    /\ nsteps = 0
    /\ since_poll = 0
    /\ last = StepInfo("none", NoInsn, 0, 0, {})
    /\ lr = {}
    /\ BuiltByInitCpu

\* The debugger single-steps the guest.
NextFault ==
    \/ DbgStep
    \/ cycles < MaxCycles /\ ExecGdbStep

SpecFault == InitFault /\ [][NextFault]_vars

(***************************************************************************)
(* A specification for the construction of a memory: a configuration is    *)
(* given to a MemoryBuilder call by call, with page bases, sizes and        *)
(* bootrom lengths from small sets, and built at any point.                *)
(***************************************************************************)
MaxBuilderCalls == 3
BuilderPages == {0, PAGE_SIZE, 2 * PAGE_SIZE}
BuilderBootromLens == {0, PAGE_SIZE + 904}
BuilderPhysicalSizes == {PAGE_SIZE, 100}
BuilderMappingSizes == {0, PAGE_SIZE, 2 * PAGE_SIZE, PAGE_SIZE + 100}

runvars == <<cpuvars, panicked, in_call, status, incoming, dbg_ops, nsteps, since_poll,
             last, lr, alu, fpu, reply>>

\* The builder call c is made.
BuilderCall(c) ==
    /\ builder.kind = "ok" /\ built = <<>>
    /\ Len(calls) < MaxBuilderCalls
    /\ builder' = ApplyCall(builder.b, c)
    /\ calls' = Append(calls, c)
    /\ UNCHANGED <<built, runvars>>

CallBootrom ==
    \E len \in BuilderBootromLens, addr \in BuilderPages :
        BuilderCall([op |-> "bootrom", len |-> len, addr |-> addr])

CallPhysicalSize ==
    \E size \in BuilderPhysicalSizes : BuilderCall([op |-> "physical_size", size |-> size])

CallPhysMapping ==
    \E virt \in BuilderPages, size \in BuilderMappingSizes :
        BuilderCall([op |-> "phys_mapping", virt |-> virt, phys |-> 0, size |-> size])

CallAddMapping ==
    \E virt \in BuilderPages : BuilderCall([op |-> "add_mapping", virt |-> virt])

\* MemoryBuilder::build, for every iteration order of its two HashMaps.
CallBuild ==
    /\ builder.kind = "ok" /\ built = <<>>
    /\ \E po \in IterOrders(DOMAIN builder.b.physical_mappings),
          mo \in IterOrders(DOMAIN builder.b.misc_maps) :
          built' = <<build(builder.b, po, mo)>>
    /\ UNCHANGED <<builder, calls, runvars>>

\* No CPU exists while the memory is under construction: the CPU variables
\* hold their values at construction over an empty memory image.
InitBuild ==
    /\ CpuIs(CpuNew(FullExtensions, MemNew(Image(<<>>))))
    /\ panicked = FALSE
    /\ in_call = FALSE
    /\ status = "none"
    /\ incoming = FALSE
    /\ dbg_ops = 0
    /\ nsteps = 0
    /\ since_poll = 0
    /\ last = StepInfo("none", NoInsn, 0, 0, {})
    /\ lr = {}
    /\ builder = BuilderOk(MemoryBuilderDefault)
    /\ calls = <<>>
    /\ built = <<>>
    /\ alu = AluIdle
    /\ fpu = FpuIdle
    /\ reply = NoReply

NextBuild ==
    \/ CallBootrom
    \/ CallPhysicalSize
    \/ CallPhysMapping
    \/ CallAddMapping
    \/ CallBuild

SpecBuild == InitBuild /\ [][NextBuild]_vars

(***************************************************************************)
(* A specification for the CSR instructions: the guests set x1 = 21,       *)
(* x3 = 9 and mepc = 13, then execute one CSR instruction of every form on  *)
(* a read-only CSR, on writable CSRs or on a CSR that does not exist, and   *)
(* the debugger single-steps them.                                         *)
(***************************************************************************)
CsrFuncs == {1, 2, 3, 5, 6, 7}
CsrTargets == {MVENDORID, MIMPID, MTVEC, MEPC, 291}
CsrDsts == {0, 1, 3}
CsrSrcs == {0, 1}
CsrPrograms ==
    { <<ADDI(1, 0, 21), ADDI(3, 0, 9), CSR(5, 0, MEPC, 13), CSR(f, rd, csr, src),
        JAL(0, 0)>> :
        f \in CsrFuncs, rd \in CsrDsts, csr \in CsrTargets, src \in CsrSrcs }

InitCsr ==
    /\ \E prog \in CsrPrograms : CpuIs(CpuNew(FullExtensions, MemNew(Image(prog))))
    /\ panicked = FALSE
    /\ in_call = FALSE
    /\ status = "none"
    /\ incoming = FALSE
    /\ dbg_ops = 0
    /\ nsteps = 0
    /\ since_poll = 0
    /\ last = StepInfo("none", NoInsn, 0, 0, {})
    /\ lr = {}
    /\ BuiltByInitCpu

\* The debugger single-steps the guest.
NextCsr ==
    \/ DbgStep
    \/ cycles < MaxCycles /\ ExecGdbStep

SpecCsr == InitCsr /\ [][NextCsr]_vars

(***************************************************************************)
(* A specification for the decoder: guests that begin with a 48-bit, a     *)
(* 64-bit or a longer length prefix, that jump to an address which is a     *)
(* multiple of 2 but not of 4, or that use the atomic, integer and          *)
(* compressed families, each run under the extension set of main.rs and     *)
(* under that set without one of Compressed, Atomic and Integer.           *)
(***************************************************************************)
DecodePrograms ==
    { <<Half(31), Half(0), Half(0)>>,
      <<Half(63), Half(0), Half(0), Half(0)>>,
      <<Half(127)>>,
      <<JAL(0, 6), C_NOP, ADDI(3, 0, 9), JAL(0, 0)>>,
      <<LUI(1, 8), LR_W(3, 1), AMO(0, 2, 4, 3, 1), JAL(0, 0)>>,
      <<ADDI(1, 0, 5), LUI(2, 8), SW(1, 2, 0), LW(3, 2, 0), JALR(0, 0, 0)>>,
      <<C_ADDI(1, 3), C_NOP, AUIPC(2, 0), ECALL>>,
      <<AUIPC(5, 0), ADDI(5, 5, 10), C_JALR(5), C_NOP, C_JR(1), C_NOP, JAL(0, 0)>> }
DecodeExtensionSets ==
    { FullExtensions, FullExtensions \ {"COMPRESSED"}, FullExtensions \ {"ATOMIC"},
      FullExtensions \ {"INTEGER"} }

InitDecode ==
    /\ \E prog \in DecodePrograms, ext \in DecodeExtensionSets :
         CpuIs(CpuNew(ext, MemNew(Image(prog))))
    /\ panicked = FALSE
    /\ in_call = FALSE
    /\ status = "none"
    /\ incoming = FALSE
    /\ dbg_ops = 0
    /\ nsteps = 0
    /\ since_poll = 0
    /\ last = StepInfo("none", NoInsn, 0, 0, {})
    /\ lr = {}
    /\ BuiltByInitCpu

\* The debugger single-steps the guest.
NextDecode ==
    \/ DbgStep
    \/ cycles < MaxCycles /\ ExecGdbStep

SpecDecode == InitDecode /\ [][NextDecode]_vars

(***************************************************************************)
(* The integer unit on full-width operands: an OP-IMM shift or an          *)
(* OP-IMM-32 instruction is decoded from its parcel and executed with a    *)
(* chosen 64-bit value in its source register.                             *)
(***************************************************************************)
\* The parcel of a 4-byte encoding.
ParcelOf(w) == [lo |-> w[1] + 256 * w[2], hi |-> w[3] + 256 * w[4]]

OP_IMM(func3, rd, rs1, imm) == EncI(imm, rs1, func3, rd, 19)
OP_IMM_32(func3, rd, rs1, imm) == EncI(imm, rs1, func3, rd, 27)

\* Immediates: shift amounts with the logical (upper bits 0) and arithmetic
\* (bit 10 set) kinds, and addiw operands of both signs.
AluImms == {-2048, -1, 0, 1, 5, 16, 31, 32, 63, 96, 1024, 1025, 1040, 1055, 1087, 2047}
ShiftParcels == { ParcelOf(OP_IMM(f, 1, 2, imm)) : f \in {1, 5}, imm \in AluImms }
WordParcels == { ParcelOf(OP_IMM_32(f, 1, 2, imm)) : f \in {0, 1, 5}, imm \in AluImms }

\* Source register values: 0, 1, 0x7FFFFFFF, 0x80000000, all ones, a value
\* with every limb distinct, and one that differs from 1 above bit 31 only.
AluOperands ==
    { <<0, 0, 0, 0>>, <<1, 0, 0, 0>>, <<65535, 32767, 0, 0>>, <<0, 32768, 0, 0>>,
      <<65535, 65535, 65535, 65535>>, <<4660, 22136, 39612, 57072>>, <<1, 0, 1, 0>> }

InitAlu ==
    /\ CpuIs(CpuNew(FullExtensions, MemNew(Image(<<>>))))
    /\ panicked = FALSE
    /\ in_call = FALSE
    /\ status = "none"
    /\ incoming = FALSE
    /\ dbg_ops = 0
    /\ nsteps = 0
    /\ since_poll = 0
    /\ last = StepInfo("none", NoInsn, 0, 0, {})
    /\ lr = {}
    /\ BuiltByInitCpu

\* The instruction of parcel runs with lhs in its source register; r is what
\* its parser returned.  An abort of the parser ends the process.
AluStep(parcel, lhs, r) ==
    /\ ~panicked
    /\ alu' = AluRan(parcel, lhs, r)
    /\ panicked' = (r.kind = "panic")
    /\ UNCHANGED <<cpuvars, in_call, status, incoming, dbg_ops, nsteps, since_poll,
                   last, lr, builder, calls, built, fpu, reply>>

\* insn32::parse, OP_IMM with func SHIFT_LEFT_IMM or SHIFT_RIGHT_IMM, and the
\* executor.
ExecOpImm ==
    \E parcel \in ShiftParcels, lhs \in AluOperands :
       /\ has(supported_extensions, "INTEGER")
       /\ AluStep(parcel, lhs, parse_op_imm_shift(ITypeParse(parcel)))

\* insn32::parse, OP_IMM_32, and the executor.
ExecOpImm32 ==
    \E parcel \in WordParcels, lhs \in AluOperands :
       /\ has(supported_extensions, "INTEGER")
       /\ AluStep(parcel, lhs, parse_op_imm_32(ITypeParse(parcel)))

NextAlu ==
    \/ ExecOpImm
    \/ ExecOpImm32

SpecAlu == InitAlu /\ [][NextAlu]_vars

(***************************************************************************)
(* The float unit: the executors of the compare instructions and of the    *)
(* arithmetic instructions' rounding-mode set-up run on chosen operands,    *)
(* and the guest sets fcsr with li / csrrw.                                *)
(***************************************************************************)
\* +0, -0, 1.0, -1.0, 2.0, +infinity, a quiet NaN of each sign, a signaling
\* NaN, and the normal number 0x04000001, whose exponent field is 8.
FloatOperands ==
    { <<0, 0>>, <<0, 32768>>, <<0, 16256>>, <<0, 49024>>, <<0, 16384>>,
      <<0, 32640>>, <<0, 32704>>, <<0, 65472>>, <<1, 32640>>, <<1, 1024>> }

\* fcsr values: rounding modes RNE, RTZ, RUP and RMM with and without flags.
FcsrValues == {0, 1, 31, 32, 33, 96, 128, 159}

\* The rm field of an arithmetic instruction.
RoundingModes == {0, 1, 2, 3, 4, Dynamic}

CompareOps == {"Equal", "LessThan", "LessOrEqual"}

InitFpu ==
    /\ CpuIs(CpuNew(FullExtensions, MemNew(Image(<<>>))))
    /\ panicked = FALSE
    /\ in_call = FALSE
    /\ status = "none"
    /\ incoming = FALSE
    /\ dbg_ops = 0
    /\ nsteps = 0
    /\ since_poll = 0
    /\ last = StepInfo("none", NoInsn, 0, 0, {})
    /\ lr = {}
    /\ BuiltByInitCpu

\* What the float-unit actions leave alone.
FpuUnchanged ==
    UNCHANGED <<panicked, in_call, status, incoming, dbg_ops, nsteps, since_poll,
                last, lr, builder, calls, built, alu, reply>>

\* li x5, v; csrrw x0, fcsr, x5.
ExecFcsrWrite ==
    \E v \in FcsrValues :
       LET li == [ext |-> "Int", op |-> "AddImmediate", dst |-> 5, lhs |-> 0, rhs |-> v]
           csrrw == [ext |-> "Csr", op |-> "CSRReadWrite", dst |-> 0, src |-> 5,
                     csr |-> FCSR]
       IN /\ SetCpu(exec_csr(execute_i_insn(Cpu, li, pc).s, csrrw, pc).s)
          /\ fpu' = FpuIdle
          /\ FpuUnchanged

\* feq.s / flt.s / fle.s x1, f(lhs), f(rhs).
ExecFCompare ==
    \E op \in CompareOps, lhs \in FloatOperands, rhs \in FloatOperands :
       LET insn == [ext |-> "Float", op |-> op, dst |-> 1]
       IN /\ SetCpu(exec_f_compare(Cpu, insn, lhs, rhs))
          /\ fpu' = FpuCompared(insn, lhs, rhs, csrs[FCSR])
          /\ FpuUnchanged

\* The rounding-mode set-up of fadd.s, fsub.s, fmul.s, fdiv.s, fsqrt.s and
\* fmadd.s with the rm field rm.
ExecFArith ==
    \E rm \in RoundingModes :
       /\ fpu' = FpuRounded(rm, write_thread_local(rm, Cpu), csrs[FCSR])
       /\ UNCHANGED cpuvars
       /\ FpuUnchanged

NextFpu ==
    \/ ExecFcsrWrite
    \/ ExecFCompare
    \/ ExecFArith

SpecFpu == InitFpu /\ [][NextFpu]_vars

(***************************************************************************)
(* Atomic instructions at addresses that do and do not translate: guests   *)
(* that point x1 at DRAM, at the boot ROM and at a page nothing maps, and  *)
(* run one load-reserved, store-conditional or read-modify-write there,    *)
(* and guests that run several of them one after the other.                *)
(***************************************************************************)
AtomicFaultBases == {DRAM_BASE, BOOTROM_OFFSET, 4 * PAGE_SIZE}
AtomicFaultInsns ==
    {LR_W(3, 1), LR_D(3, 1), SC_W(3, 2, 1), SC_D(3, 2, 1)}
        \cup {AMO(f5, 2, 3, 2, 1) : f5 \in {0, 1, 4}}
\* The second family reserves the last word of DRAM, runs a
\* store-conditional there that succeeds (word) or fails in its write at the
\* end of DRAM (doubleword), and then a read-modify-write.
AtomicFaultPrograms ==
    { <<LUI(1, base \div PAGE_SIZE), ADDI(2, 0, 3), x, JAL(0, 0)>> :
        base \in AtomicFaultBases, x \in AtomicFaultInsns }
    \cup { <<LUI(1, (DRAM_BASE + DRAM_SIZE) \div PAGE_SIZE), ADDI(1, 1, -4), ADDI(2, 0, 3),
             LR_W(3, 1), sc, AMO(f5, 2, 5, 2, 1), JAL(0, 0)>> :
             sc \in {SC_W(4, 2, 1), SC_D(4, 2, 1)}, f5 \in {0, 1} }

InitAtomicFault ==
    /\ \E prog \in AtomicFaultPrograms :
          CpuIs(CpuNew(FullExtensions, MemNew(Image(prog))))
    /\ panicked = FALSE
    /\ in_call = FALSE
    /\ status = "none"
    /\ incoming = FALSE
    /\ dbg_ops = 0
    /\ nsteps = 0
    /\ since_poll = 0
    /\ last = StepInfo("none", NoInsn, 0, 0, {})
    /\ lr = {}
    /\ BuiltByInitCpu

\* The debugger single-steps the guest.
NextAtomicFault ==
    \/ DbgStep
    \/ cycles < MaxCycles /\ ExecGdbStep

SpecAtomicFault == InitAtomicFault /\ [][NextAtomicFault]_vars

(***************************************************************************)
(* Reservations on several lines: guests that load-reserve at DRAM_BASE    *)
(* and at a second address, store-conditional at a third, and then         *)
(* store-conditional at DRAM_BASE.                                         *)
(***************************************************************************)
LineOffsets == {0, 4, CACHE_LINE_SIZE, 3 * CACHE_LINE_SIZE}
LinePrograms ==
    { <<LUI(1, 8), ADDI(5, 1, o2), ADDI(6, 1, o3), ADDI(2, 0, 77),
        LR_W(3, 1), lr2, SC_W(7, 2, 6), SC_W(8, 2, 1), JAL(0, 0)>> :
        o2 \in LineOffsets \ {0}, o3 \in LineOffsets \ {4},
        lr2 \in {LR_W(4, 5), LR_D(4, 5)} }

InitLines ==
    /\ \E prog \in LinePrograms : CpuIs(CpuNew(FullExtensions, MemNew(Image(prog))))
    /\ panicked = FALSE
    /\ in_call = FALSE
    /\ status = "none"
    /\ incoming = FALSE
    /\ dbg_ops = 0
    /\ nsteps = 0
    /\ since_poll = 0
    /\ last = StepInfo("none", NoInsn, 0, 0, {})
    /\ lr = {}
    /\ BuiltByInitCpu

\* The debugger single-steps the guest.
NextLines ==
    \/ DbgStep
    \/ cycles < MaxCycles /\ ExecGdbStep

SpecLines == InitLines /\ [][NextLines]_vars

(***************************************************************************)
(* Properties.                                                             *)
(***************************************************************************)
\* A transition that is one execute_one call.
IsStep == nsteps' = nsteps + 1

\* C1: every execute_one call adds exactly 1 to the cycle counter, whatever
\* the step does (executes an instruction, enters a pending trap, fails to
\* decode, reports HitBreakpoint, or aborts), and no other operation changes
\* the cycle counter.
C1_CyclesCountSteps ==
    [][IF IsStep THEN cycles' = cycles + 1 ELSE cycles' = cycles]_vars

\* A trap-entering step was counted like the executing steps before it.
C1_Witness == last.kind = "trap_entry" /\ nsteps = 3 /\ cycles = 3

\* C2: a step taken while a trap is pending (requested by the step before,
\* with mcause = c and mtval = v) executes no instruction, clears the
\* trap-pending flag, ends with pc = mtvec, leaves mcause and mtval as they
\* were requested, and returns: Stepped when single-stepping.
C2_TrapEntryReturnsStepped ==
    [][(IsStep /\ should_trap) =>
          /\ last'.kind = "trap_entry"
          /\ registers' = registers /\ fp_registers' = fp_registers /\ mem' = mem
          /\ ~should_trap'
          /\ pc' = csrs[MTVEC]
          /\ csrs'[MCAUSE] = csrs[MCAUSE] /\ csrs'[MTVAL] = csrs[MTVAL]
          /\ ~panicked'
          /\ (exec_state = "Step" => status' = "Stepped")]_vars

\* The step after the ecall of program "trap": trap entry was taken with
\* mcause = ECALL_MMODE pending, and the step did not return.
C2_Witness ==
    /\ last.kind = "trap_entry"
    /\ csrs[MCAUSE] = ECALL_MMODE
    /\ pc = csrs[MTVEC] /\ ~should_trap
    /\ panicked

\* The memory after the store instruction insn executed from the state of the
\* current variables: whatever write_slice wrote, a failed write included.
StoredBy(insn, n) ==
    write_int(mem, wrapping_add_signed(GPGet(registers, insn.dst), insn.dst_offset),
              Truncate(GPGet(registers, insn.src), n), n).mem

\* C3: a step that requests a trap changes, of the trap state, only mcause,
\* mtval and the trap-pending flag: pc is past the instruction (or unmoved
\* after a decode failure) and never mtvec, no other CSR changes, the step is
\* not a trap entry, and what the executor did before the request stays: the
\* bytes a faulting store wrote are in memory.
C3_RequestTrapFrame ==
    [][(IsStep /\ ~should_trap /\ should_trap') =>
          /\ last'.kind \in {"executed", "decode_err"}
          /\ pc' = pc + last'.size
          /\ pc' # csrs'[MTVEC]
          /\ \A a \in CsrAddrs \ {MCAUSE, MTVAL} : csrs'[a] = csrs[a]
          /\ registers' = registers /\ fp_registers' = fp_registers
          /\ breakpoints' = breakpoints /\ exec_state' = exec_state
          /\ supported_extensions' = supported_extensions
          /\ ~panicked'
          /\ mem' = CASE last'.insn.op = "StoreByte" -> StoredBy(last'.insn, 1)
                      [] last'.insn.op = "StoreHalf" -> StoredBy(last'.insn, 2)
                      [] last'.insn.op = "StoreWord" -> StoredBy(last'.insn, 4)
                      [] last'.insn.op = "StoreDoubleWord" -> StoredBy(last'.insn, 8)
                      [] OTHER -> mem]_vars

\* The sw of program "fault" ran off the end of DRAM: its first two bytes are
\* in the last two bytes of physical memory, the trap is pending with the
\* first unmapped address, and pc is past the sw.
C3_Witness ==
    /\ last.kind = "executed" /\ last.insn.op = "StoreWord"
    /\ should_trap
    /\ csrs[MCAUSE] = STORE_PAGE_FAULT /\ csrs[MTVAL] = DRAM_BASE + DRAM_SIZE
    /\ BufGet(mem.phys, PHYS_SIZE - 2) = 171 /\ BufGet(mem.phys, PHYS_SIZE - 1) = 7
    /\ pc = last.start_pc + 4

\* C4: a step taken with no trap pending and pc in the breakpoint set returns
\* HitBreakpoint without fetching or executing: pc, the general and floating
\* point registers, the CSRs, memory and the reservations are unchanged, and
\* the cycle counter alone advances.
C4_BreakpointStepsNothing ==
    [][(IsStep /\ ~should_trap /\ pc \in breakpoints) =>
          /\ last'.kind = "breakpoint"
          /\ status' = "HitBreakpoint"
          /\ ~in_call' /\ ~panicked'
          /\ pc' = pc
          /\ registers' = registers /\ fp_registers' = fp_registers
          /\ csrs' = csrs /\ ~should_trap'
          /\ mem' = mem /\ mem'.reservations = mem.reservations
          /\ breakpoints' = breakpoints /\ exec_state' = exec_state
          /\ cycles' = cycles + 1]_vars

\* A step has stopped at a breakpoint set behind the first instruction.
C4_Witness ==
    /\ last.kind = "breakpoint" /\ status = "HitBreakpoint"
    /\ pc \in breakpoints /\ pc = BOOTROM_OFFSET + 4
    /\ cycles >= 2

\* C5: in the Running loop no more than 1024 steps pass between two
\* consecutive polls (or between the start of the call and its first poll),
\* after 1024 such steps the loop is at a poll, and when the poll finds data
\* pending the call returns None and no further step is executed.
C5_PollEvery1024 ==
    /\ [](exec_state = "Running" =>
            /\ since_poll <= PollInterval
            /\ (since_poll = PollInterval /\ ~panicked => should_poll(Cpu)))
    /\ [][(exec_state = "Running" /\ should_poll(Cpu) /\ incoming /\ ~panicked) =>
            /\ nsteps' = nsteps /\ cycles' = cycles
            /\ (in_call => (status' = "None" /\ ~in_call'))]_vars

\* A call drove 1024 steps of the counting loop from cycle 0, polled, found
\* data pending and returned None.
C5_Witness ==
    /\ status = "None" /\ ~in_call
    /\ exec_state = "Running"
    /\ cycles = PollInterval /\ nsteps = PollInterval
    /\ last.kind = "executed"

\* C6: eventual yield.  A run-loop call in progress in the Running state,
\* with data pending on the connection, eventually returns, whatever the
\* guest does.  (Stated for calls in progress no later than the first poll
\* point past cycle 0, which the cycle bound of the run leaves reachable.)
C6_EventualYield ==
    (in_call /\ exec_state = "Running" /\ incoming /\ cycles <= PollInterval)
        ~> ~in_call

\* The run loop was stepping program "trap" with data pending when the trap
\* entry after the ecall aborted: the call is still in progress and no
\* further step or poll follows.
C6_Witness ==
    /\ in_call /\ exec_state = "Running" /\ incoming
    /\ last.kind = "trap_entry" /\ panicked
    /\ cycles < PollInterval

\* C7: with run-state Paused (a freshly constructed CPU, or after a debugger
\* interrupt) no step is executed, and a run-loop call returns Paused at once:
\* the cycle counter, pc, the registers, the CSRs and memory are as before
\* the call.
C7_PausedReturnsAtOnce ==
    /\ [][exec_state = "Paused" => (nsteps' = nsteps /\ cycles' = cycles)]_vars
    /\ [][(exec_state = "Paused" /\ ~panicked /\ ~in_call /\ status' # status) =>
            /\ status' = "Paused"
            /\ ~in_call' /\ ~panicked'
            /\ UNCHANGED <<cycles, pc, registers, fp_registers, csrs, mem,
                           should_trap, exec_state>>]_vars

\* A call returned Paused on a CPU that had run before: the debugger
\* interrupted a running guest.
C7_Witness ==
    /\ status = "Paused" /\ exec_state = "Paused"
    /\ ~in_call
    /\ cycles > 0 /\ last.kind = "executed"

\* C8: a step whose decode fails (the decoder returned Err) returns Ok:
\* Stepped when single-stepping, another turn of the loop when running.  The
\* pc is not advanced, no register and no byte of memory changes, and the trap
\* the decoder requested is pending for the next step.
C8_DecodeFailureIsStepped ==
    [][(IsStep /\ last'.kind = "decode_err") =>
          /\ pc' = pc
          /\ registers' = registers /\ fp_registers' = fp_registers
          /\ mem' = mem
          /\ should_trap'
          /\ csrs'[MCAUSE] \in {ILLEGAL_INSTRUCTION, INSTRUCTION_PAGE_FAULT}
          /\ ~panicked'
          /\ (exec_state = "Step" => status' = "Stepped")
          /\ (exec_state = "Running" => in_call')]_vars

\* A single step met a compressed parcel on a CPU without the C extension:
\* Stepped, pc still at the parcel, the illegal-instruction trap pending.
C8_Witness ==
    /\ last.kind = "decode_err" /\ status = "Stepped"
    /\ should_trap /\ csrs[MCAUSE] = ILLEGAL_INSTRUCTION /\ csrs[MTVAL] = pc
    /\ pc = last.start_pc
    /\ ~has(supported_extensions, "COMPRESSED")

\* The executed instruction insn names x0 as the register it writes.
WritesX0(insn) ==
    \/ /\ insn.op \in {"LoadUpperImmediate", "AddUpperImmediateToPc", "AddImmediate",
                       "LoadWord", "LoadDoubleWord", "LoadReserved", "StoreConditional"}
       /\ insn.dst = 0
    \/ /\ insn.op \in {"JumpAndLink", "JumpAndLinkRegister"}
       /\ insn.link_reg = 0

\* C9: after any sequence of instructions and debugger register writes,
\* general-purpose register 0 reads 0, through get and in the array the
\* debugger reads, and an instruction that writes register 0 changes no
\* register.
C9_ZeroRegister ==
    /\ [](GPGet(registers, 0) = 0 /\ registers[0] = 0)
    /\ [][(IsStep /\ last'.kind = "executed" /\ WritesX0(last'.insn)) =>
             registers' = registers]_vars

\* Program "x0" has loaded into x0 the doubleword at DRAM_BASE, which it had
\* stored nonzero before, and x0 is still 0.
C9_Witness ==
    /\ last.kind = "executed" /\ last.insn.op = "LoadDoubleWord" /\ last.insn.dst = 0
    /\ read_int(mem, DRAM_BASE, 8).kind = "ok" /\ read_int(mem, DRAM_BASE, 8).val # 0
    /\ registers[0] = 0
    /\ ~should_trap /\ ~panicked

\* The step being taken executes a store-conditional of n bytes at address a.
ScStep(a, n) ==
    /\ IsStep /\ ~should_trap /\ last'.kind = "executed"
    /\ last'.insn.op = "StoreConditional" /\ last'.insn.width = n
    /\ a = GPGet(registers, last'.insn.src1)

\* The store-conditional of the step succeeded: its value is at a and its
\* destination register holds 0.
ScSucceeded(a, n) ==
    /\ ~panicked'
    /\ registers' = GPSet(registers, last'.insn.dst, 0)
    /\ read_int(mem', a, n).kind = "ok"
    /\ read_int(mem', a, n).val = Truncate(GPGet(registers, last'.insn.src2), n)

\* Every byte of the n bytes at a lies in a mapped page.
Mapped(a, n) == \A i \in 0 .. (n - 1) : PageBase(a + i) \in DOMAIN mappings

StoreWidth(op) ==
    CASE op = "StoreByte" -> 1 [] op = "StoreHalf" -> 2
      [] op = "StoreWord" -> 4 [] op = "StoreDoubleWord" -> 8

\* The step being taken executes a plain store instruction.
IsStoreStep ==
    /\ IsStep /\ ~should_trap /\ last'.kind = "executed"
    /\ last'.insn.op \in {"StoreByte", "StoreHalf", "StoreWord", "StoreDoubleWord"}

\* The step being taken executes a store-conditional.
IsScStep ==
    /\ IsStep /\ ~should_trap /\ last'.kind = "executed"
    /\ last'.insn.op = "StoreConditional"

\* The physical line of the virtual address a, which translates.
LineAt(a) == LineOf(translate_address(a).phys)

\* The store-conditional of the step failed: the destination register holds
\* 1 and memory, the reservation table included, is as it was.
ScFailed ==
    /\ ~panicked'
    /\ registers' = GPSet(registers, last'.insn.dst, 1)
    /\ mem' = mem

IsLrStep ==
    /\ IsStep /\ ~should_trap /\ last'.kind = "executed"
    /\ last'.insn.op = "LoadReserved"

IsAmoStep ==
    /\ IsStep /\ ~should_trap /\ last'.kind = "executed"
    /\ last'.insn.ext = "Atomic"
    /\ last'.insn.op \notin {"LoadReserved", "StoreConditional"}

C15_ReservationsUnderLock ==
    /\ [](~mem.unlocked_reservation)
    /\ [][(IsStep /\ ~should_trap /\ last'.kind = "executed"
             /\ last'.insn.op \in {"LoadWord", "LoadDoubleWord"}) =>
            mem'.reservations = mem.reservations]_vars

\* The lr.w of program "lrsc" has installed its reservation on the line of
\* DRAM_BASE, and the lock was not held when it did.
C15_Witness ==
    /\ last.kind = "executed" /\ last.insn.op = "LoadReserved" /\ last.insn.width = 4
    /\ DOMAIN mem.reservations = {LineAt(DRAM_BASE)}
    /\ mem.unlocked_reservation
    /\ ~panicked

\* The physical addresses of the n bytes at a, all physically backed.
PhysBacked(a, n) == \A i \in 0 .. (n - 1) : translate_address(a + i).kind = "ok"
PhysBytes(a, n) == {translate_address(a + i).phys : i \in 0 .. (n - 1)}

\* The addresses the guests of SpecMem store doublewords to.
MemProbes == {DRAM_BASE, DRAM_BASE + 60, DRAM_BASE + PAGE_SIZE - 4, ALIAS_BASE + 8}

\* C16: for a with [a, a + 8) physically backed, read_u64(a) right after
\* write_u64(a, v) yields v, a load of the doubleword at a yields what
\* read_u64(a) yields, and a write to other bytes (by a store instruction or
\* by the debugger) leaves the bytes read_u64(a) reads unchanged.
C16_WriteReadRoundTrip ==
    /\ [][(IsStoreStep /\ last'.insn.op = "StoreDoubleWord") =>
            LET a == wrapping_add_signed(GPGet(registers, last'.insn.dst),
                                         last'.insn.dst_offset)
            IN PhysBacked(a, 8) =>
                  /\ read_slice(mem', a, 8).kind = "ok"
                  /\ read_slice(mem', a, 8).bytes
                        = to_le_bytes(GPGet(registers, last'.insn.src), 8)
                  /\ read_int(mem', a, 8).val = GPGet(registers, last'.insn.src)]_vars
    /\ [][(IsStep /\ ~should_trap /\ last'.kind = "executed"
             /\ last'.insn.op = "LoadDoubleWord") =>
            LET a == wrapping_add_signed(GPGet(registers, last'.insn.src),
                                         last'.insn.src_offset)
            IN PhysBacked(a, 8) =>
                  registers' = GPSet(registers, last'.insn.dst, read_int(mem, a, 8).val)]_vars
    /\ [][\A p \in MemProbes :
            (\A q \in PhysBytes(p, 8) : BufGet(mem'.phys, q) = BufGet(mem.phys, q))
               => read_slice(mem', p, 8) = read_slice(mem, p, 8)]_vars
    /\ [][IsStoreStep =>
            LET a == wrapping_add_signed(GPGet(registers, last'.insn.dst),
                                         last'.insn.dst_offset)
                n == StoreWidth(last'.insn.op)
            IN \A p \in MemProbes :
                  (PhysBacked(a, n) /\ PhysBytes(a, n) \cap PhysBytes(p, 8) = {})
                     => read_slice(mem', p, 8) = read_slice(mem, p, 8)]_vars

\* The guest stored 0x12345000 as a doubleword 4 bytes before the page
\* boundary inside DRAM, over other bytes, then a byte behind it, and the
\* load of the doubleword has put 0x12345000 into x3.
C16_Witness ==
    /\ last.kind = "executed" /\ last.insn.op = "LoadDoubleWord" /\ last.insn.dst = 3
    /\ registers[1] = DRAM_BASE + PAGE_SIZE - 4
    /\ registers[2] = 74565 * 4096 /\ registers[3] = registers[2]
    /\ read_int(mem, DRAM_BASE + PAGE_SIZE + 4, 1).val = 171
    /\ ~should_trap /\ ~panicked

\* The first of the n addresses from a on that has no page entry.
FirstUnmapped(a, n) ==
    a + (CHOOSE i \in 0 .. (n - 1) :
            /\ PageBase(a + i) \notin DOMAIN mappings
            /\ \A j \in 0 .. (i - 1) : PageBase(a + j) \in DOMAIN mappings)

LoadWidth(op) == CASE op = "LoadWord" -> 4 [] op = "LoadDoubleWord" -> 8

\* The step being taken executes a plain load instruction.
IsLoadStep ==
    /\ IsStep /\ ~should_trap /\ last'.kind = "executed"
    /\ last'.insn.op \in {"LoadWord", "LoadDoubleWord"}

\* The first part of C17, which the code meets: a load (store) whose span
\* does not translate requests load-page-fault (store-page-fault) with mtval
\* the first address without a page entry, and writes no register.
C17_FaultRequested ==
    /\ [][IsLoadStep =>
            LET a == wrapping_add_signed(GPGet(registers, last'.insn.src),
                                         last'.insn.src_offset)
                n == LoadWidth(last'.insn.op)
            IN ~Mapped(a, n) =>
                  /\ should_trap'
                  /\ csrs'[MCAUSE] = LOAD_PAGE_FAULT
                  /\ csrs'[MTVAL] = FirstUnmapped(a, n)
                  /\ registers' = registers
                  /\ ~panicked']_vars
    /\ [][IsStoreStep =>
            LET a == wrapping_add_signed(GPGet(registers, last'.insn.dst),
                                         last'.insn.dst_offset)
                n == StoreWidth(last'.insn.op)
            IN ~Mapped(a, n) =>
                  /\ should_trap'
                  /\ csrs'[MCAUSE] = STORE_PAGE_FAULT
                  /\ csrs'[MTVAL] = FirstUnmapped(a, n)
                  /\ registers' = registers
                  /\ ~panicked']_vars

\* C17: when the address span of a load (store) fails translation, the
\* instruction requests load-page-fault (store-page-fault) with mtval the
\* virtual address of the first failing byte and ends without writing its
\* destination register, and the next step enters the trap: it executes no
\* instruction, continues at mtvec with the trap no longer pending, and returns.
C17_PageFaultTrapsNextStep ==
    /\ C17_FaultRequested
    /\ [][(IsStep /\ should_trap
             /\ csrs[MCAUSE] \in {LOAD_PAGE_FAULT, STORE_PAGE_FAULT}) =>
            /\ last'.kind = "trap_entry"
            /\ pc' = csrs[MTVEC] /\ ~should_trap'
            /\ registers' = registers /\ mem' = mem
            /\ ~panicked'
            /\ status' = "Stepped"]_vars

\* The lw of a guest read across the end of DRAM: load-page-fault was
\* requested with the first address behind DRAM, x3 kept its 55, and the next
\* step, the trap entry, did not return.
C17_Witness ==
    /\ last.kind = "trap_entry"
    /\ csrs[MCAUSE] = LOAD_PAGE_FAULT /\ csrs[MTVAL] = DRAM_BASE + DRAM_SIZE
    /\ registers[1] = DRAM_BASE + DRAM_SIZE /\ registers[3] = 55
    /\ pc = csrs[MTVEC] /\ ~should_trap
    /\ panicked

\* The virtual page bases the builder call c asks to map.
CallPages(c) ==
    CASE c.op = "bootrom" ->
           { c.addr + k * PAGE_SIZE : k \in 0 .. (((c.len + PAGE_SIZE - 1) \div PAGE_SIZE) - 1) }
      [] c.op = "phys_mapping" ->
           { c.virt + k * PAGE_SIZE : k \in 0 .. ((c.size \div PAGE_SIZE) - 1) }
      [] c.op = "add_mapping" -> {c.virt}
      [] OTHER -> {}

\* The configuration maps a virtual page base twice.
DuplicatePageBase(cs) ==
    \E i, j \in DOMAIN cs : i < j /\ CallPages(cs[i]) \cap CallPages(cs[j]) # {}

\* The configuration gives a size that is not a multiple of PAGE_SIZE.
UnalignedSize(cs) ==
    \E i \in DOMAIN cs :
        cs[i].op \in {"physical_size", "phys_mapping"} /\ cs[i].size % PAGE_SIZE # 0

\* The configuration sets the bootrom twice.
BootromTwice(cs) ==
    \E i, j \in DOMAIN cs : i < j /\ cs[i].op = "bootrom" /\ cs[j].op = "bootrom"

\* build returned a Memory.
MemoryProduced == built # <<>> /\ built[1].kind = "ok"

\* C18: a configuration that maps a virtual page base twice (two physical
\* mappings, a physical mapping and the bootrom, or an MMIO entry and any
\* other mapping), gives a physical or mapping size that is not a multiple of
\* 4096, or sets the bootrom twice, produces no Memory: a builder call or
\* build panics, and after a panic nothing is built.
C18_BadConfigurationRefused ==
    /\ (DuplicatePageBase(calls) \/ UnalignedSize(calls) \/ BootromTwice(calls))
          => ~MemoryProduced
    /\ builder.kind = "panic" => built = <<>>
    /\ (built # <<>> /\ DuplicatePageBase(calls)) => built[1].kind = "panic"

\* The bootrom covers pages 1 and 2 and a physical mapping starts at page 2:
\* every builder call passed, and build refused.
C18_Witness ==
    /\ calls = << [op |-> "bootrom", len |-> PAGE_SIZE + 904, addr |-> PAGE_SIZE],
                  [op |-> "phys_mapping", virt |-> 2 * PAGE_SIZE, phys |-> 0,
                   size |-> PAGE_SIZE] >>
    /\ builder.kind = "ok"
    /\ built = <<[kind |-> "panic"]>>

\* The memory init_cpu builds has the page entries the CPU model reads.
MappingsAsBuilt == built # <<>> /\ built[1].kind = "ok" /\ built[1].mappings = mappings

\* The step being taken executes a CSR instruction.
IsCsrStep == IsStep /\ ~should_trap /\ last'.kind = "executed" /\ last'.insn.ext = "Csr"

\* The write side of the read-and-set or read-and-clear instruction insn is
\* active: its source register is not x0, or its 5-bit immediate is not 0.
WriteSideActive(insn) == insn.mask # 0

\* C19: a read-and-set or read-and-clear instruction (register or immediate
\* form) on an existing read-only CSR requests illegal-instruction exactly
\* when its write side is active; when it traps, neither the CSR nor any
\* register changes; when the write side is inactive, it reads the CSR into
\* the destination, changes no CSR and requests no trap.
C19_ReadOnlyCsrWriteSide ==
    [][(IsCsrStep
          /\ last'.insn.op \in {"CSRReadAndSet", "CSRReadAndClear",
                                "CSRReadAndSetImm", "CSRReadAndClearImm"}
          /\ last'.insn.csr \in DOMAIN csrs \ CsrRw) =>
          /\ should_trap' <=> WriteSideActive(last'.insn)
          /\ WriteSideActive(last'.insn) =>
                /\ csrs'[MCAUSE] = ILLEGAL_INSTRUCTION
                /\ csrs'[last'.insn.csr] = csrs[last'.insn.csr]
                /\ registers' = registers
          /\ ~WriteSideActive(last'.insn) =>
                /\ registers' = GPSet(registers, last'.insn.dst, csrs[last'.insn.csr])
                /\ csrs' = csrs]_vars

\* csrrs x3, mvendorid, x1 requested illegal-instruction: x3 kept its 9 and
\* mvendorid its 0.
C19_Witness ==
    /\ last.kind = "executed" /\ last.insn.op = "CSRReadAndSet"
    /\ last.insn.csr = MVENDORID /\ last.insn.mask = 1 /\ last.insn.dst = 3
    /\ should_trap /\ csrs[MCAUSE] = ILLEGAL_INSTRUCTION
    /\ registers[3] = 9 /\ csrs[MVENDORID] = 0

\* csrrs x3, mvendorid, x0 read mvendorid into x3 and requested no trap.
C19_WitnessRead ==
    /\ last.kind = "executed" /\ last.insn.op = "CSRReadAndSet"
    /\ last.insn.csr = MVENDORID /\ last.insn.mask = 0 /\ last.insn.dst = 3
    /\ ~should_trap /\ registers[3] = 0

\* The source value of the read-write instruction insn.
CsrSource(insn) == IF insn.op = "CSRReadWrite" THEN GPGet(registers, insn.src) ELSE insn.src

\* C20: a read-write instruction (register or immediate form) on a writable
\* CSR sets the CSR to the source value; with destination x0 it writes no
\* register, and otherwise the destination receives the CSR's previous
\* value.
C20_ReadWriteSetsCsr ==
    [][(IsCsrStep
          /\ last'.insn.op \in {"CSRReadWrite", "CSRReadWriteImm"}
          /\ last'.insn.csr \in CsrRw) =>
          /\ csrs'[last'.insn.csr] = CsrSource(last'.insn)
          /\ registers' = IF last'.insn.dst = 0 THEN registers
                          ELSE GPSet(registers, last'.insn.dst, csrs[last'.insn.csr])
          /\ ~should_trap']_vars

\* csrrw x1, mepc, x1 with x1 = 21 and mepc = 13: x1 received 13, and mepc was
\* then written from x1, so it still holds 13 and not 21.
C20_Witness ==
    /\ last.kind = "executed" /\ last.insn.op = "CSRReadWrite"
    /\ last.insn.csr = MEPC /\ last.insn.src = 1 /\ last.insn.dst = 1
    /\ registers[1] = 13 /\ csrs[MEPC] = 13

\* C20 where destination and source are different registers, which the code
\* meets.
C20_ReadWriteDistinctRegisters ==
    [][(IsCsrStep
          /\ last'.insn.op \in {"CSRReadWrite", "CSRReadWriteImm"}
          /\ last'.insn.csr \in CsrRw
          /\ (last'.insn.op = "CSRReadWrite" =>
                (last'.insn.dst # last'.insn.src \/ last'.insn.dst = 0))) =>
          /\ csrs'[last'.insn.csr] = CsrSource(last'.insn)
          /\ registers' = IF last'.insn.dst = 0 THEN registers
                          ELSE GPSet(registers, last'.insn.dst, csrs[last'.insn.csr])
          /\ ~should_trap']_vars

\* The step being taken fetches at pc: no trap is pending and pc is no
\* breakpoint.
IsFetchStep == IsStep /\ ~should_trap /\ pc \notin breakpoints

\* The 16 bits at pc, which are readable.
ParcelAtPc == read_int(mem, pc, 2)

C22_LongPrefixIsIllegal ==
    [][(IsFetchStep /\ ParcelAtPc.kind = "ok"
          /\ (ParcelAtPc.val % 64 = 31 \/ ParcelAtPc.val % 128 = 63)) =>
          /\ last'.kind = "decode_err"
          /\ should_trap' /\ csrs'[MCAUSE] = ILLEGAL_INSTRUCTION
          /\ ~panicked']_vars

\* With the compressed extension supported, the guest that begins with a
\* 48-bit prefix ended the process in its first step, with no trap requested.
C22_Witness ==
    /\ "COMPRESSED" \in supported_extensions
    /\ read_int(mem, BOOTROM_OFFSET, 2).val = 31
    /\ nsteps = 1 /\ last.kind = "decode_panic"
    /\ panicked /\ ~should_trap

\* Without the compressed extension the long prefixes are refused as claimed.
C22_LongPrefixWithoutCompressed ==
    [][(IsFetchStep /\ ParcelAtPc.kind = "ok"
          /\ "COMPRESSED" \notin supported_extensions
          /\ (ParcelAtPc.val % 64 = 31 \/ ParcelAtPc.val % 128 = 63)) =>
          /\ last'.kind = "decode_err"
          /\ should_trap' /\ csrs'[MCAUSE] = ILLEGAL_INSTRUCTION
          /\ csrs'[MTVAL] = pc
          /\ ~panicked']_vars

\* The extension a step's instruction belongs to: Compressed for a 16-bit
\* encoding, else the family of the instruction; the CSR instructions belong
\* to none of the five.
RequiredExtension(info) ==
    CASE info.size = 2 -> {"COMPRESSED"}
      [] info.insn.ext = "Int" -> {"INTEGER"}
      [] info.insn.ext = "Atomic" -> {"ATOMIC"}
      [] OTHER -> {}

\* C23: no instruction of an extension that is not supported is executed:
\* the step that meets one requests illegal-instruction and decoding fails.
C23_DisabledExtensionNotExecuted ==
    [][(IsStep /\ last'.kind = "executed") =>
          RequiredExtension(last') \subseteq supported_extensions]_vars

\* Without the integer extension, lui x1 was decoded and executed: x1 holds
\* the immediate and no trap is pending.
C23_Witness ==
    /\ "INTEGER" \notin supported_extensions
    /\ last.kind = "executed" /\ last.insn.op = "LoadUpperImmediate"
    /\ registers[1] = DRAM_BASE
    /\ ~should_trap /\ ~panicked

\* The families whose decoders do check: 32-bit loads, stores, op-imm and
\* ecall/ebreak are refused without the integer extension, and the 16-bit
\* encodings without the compressed extension.
C23_CheckedFamilies ==
    [][(IsStep /\ last'.kind = "executed"
          /\ last'.insn.ext # "Atomic"
          /\ last'.insn.op \notin {"LoadUpperImmediate", "AddUpperImmediateToPc",
                                   "JumpAndLink", "JumpAndLinkRegister"}) =>
          RequiredExtension(last') \subseteq supported_extensions]_vars

\* C24: when pc at the start of a fetch is misaligned (not a multiple of 2
\* with the compressed extension, not a multiple of 4 without it), the step
\* requests instruction-address-misaligned and executes no instruction.
C24_MisalignedPcTraps ==
    [][(IsFetchStep
          /\ pc % (IF "COMPRESSED" \in supported_extensions THEN 2 ELSE 4) # 0) =>
          /\ last'.kind = "decode_err"
          /\ should_trap' /\ csrs'[MCAUSE] = INSTRUCTION_ADDR_MISALIGNED
          /\ registers' = registers]_vars

\* Without the compressed extension the guest jumped to BOOTROM_OFFSET + 6,
\* and the addi there was fetched and executed: x3 = 9, no trap.
C24_Witness ==
    /\ "COMPRESSED" \notin supported_extensions
    /\ last.kind = "executed" /\ last.start_pc = BOOTROM_OFFSET + 6
    /\ last.insn.op = "AddImmediate" /\ registers[3] = 9
    /\ ~should_trap /\ ~panicked

\* The word-width operations, and a 64-bit value whose bits 63..32 all
\* equal its bit 31.
WordOps ==
    {"AddImmediateWord", "ShiftLeftLogicalImmediateWord",
     "ShiftRightLogicalImmediateWord", "ShiftRightArithmeticImmediateWord"}
SignExtended32(v) ==
    /\ v[3] = (IF v[2] >= 32768 THEN LIMB - 1 ELSE 0)
    /\ v[4] = v[3]

\* C25: a word-width integer operation writes its 32-bit result sign-extended
\* to 64 bits: bits 63..32 of the destination all equal bit 31.
C25_WordResultSignExtended ==
    (alu.kind = "ok" /\ alu.insn.op \in WordOps) => SignExtended32(alu.dst)

\* addiw ran and bit 31 of its result is set.
C25_Witness ==
    /\ alu.kind = "ok" /\ alu.insn.op = "AddImmediateWord"
    /\ alu.dst[2] >= 32768

\* The word-width operations do compute on the low 32 bits of the source:
\* the result is the one for the source with bits 63..32 cleared.
C25_LowWordOnly ==
    (alu.kind = "ok" /\ alu.insn.op \in WordOps) =>
        alu.dst = execute_i_insn_value(alu.insn, u32_as_u64(as_u32(alu.lhs)))

\* What addiw, slliw and srliw write above bit 31: zeros.
C25_ZeroExtended ==
    (alu.kind = "ok"
       /\ alu.insn.op \in WordOps \ {"ShiftRightArithmeticImmediateWord"}) =>
        (alu.dst[3] = 0 /\ alu.dst[4] = 0)

\* The fields of a shift-immediate encoding: the 6-bit shamt (5-bit for a
\* word form), the bits of the immediate above it, and the instruction they
\* name.
IsWordForm(parcel) == extract_bits_32(parcel, 2, 6) = 6
ShamtField(parcel) ==
    IF IsWordForm(parcel) THEN extract_bits_32(parcel, 20, 24)
    ELSE extract_bits_32(parcel, 20, 25)
UpperField(parcel) ==
    IF IsWordForm(parcel) THEN extract_bits_32(parcel, 25, 31)
    ELSE extract_bits_32(parcel, 26, 31)
IsArithmetic(parcel) ==
    UpperField(parcel) = (IF IsWordForm(parcel) THEN 32 ELSE 16)
IsShiftImmediate(parcel) ==
    /\ extract_bits_32(parcel, 12, 14) \in {1, 5}
    /\ \/ UpperField(parcel) = 0
       \/ extract_bits_32(parcel, 12, 14) = 5 /\ IsArithmetic(parcel)
NamedShift(parcel) ==
    (IF extract_bits_32(parcel, 12, 14) = 1 THEN "ShiftLeftLogicalImmediate"
     ELSE IF IsArithmetic(parcel) THEN "ShiftRightArithmeticImmediate"
     ELSE "ShiftRightLogicalImmediate")
    \o (IF IsWordForm(parcel) THEN "Word" ELSE "")

\* The n-bit value v shifted by exactly amt (< n) in the direction of op.
ShiftedBy(op, v, n, amt) ==
    LET b == BitsOf(v, n)
    IN OfBits([i \in 0 .. (n - 1) |->
                 CASE op \in {"ShiftLeftLogicalImmediate", "ShiftLeftLogicalImmediateWord"} ->
                        IF i >= amt THEN b[i - amt] ELSE 0
                   [] op \in {"ShiftRightLogicalImmediate",
                              "ShiftRightLogicalImmediateWord"} ->
                        IF i + amt < n THEN b[i + amt] ELSE 0
                   [] OTHER -> IF i + amt < n THEN b[i + amt] ELSE b[n - 1]], n)

\* C26: a shift-immediate instruction is decoded with its shift amount equal
\* to the shamt field and its kind taken from the upper immediate bits, and
\* it shifts the source by exactly that amount in the named direction.
C26_ShiftImmediateDecoded ==
    (alu.kind # "idle" /\ IsShiftImmediate(alu.parcel)) =>
        /\ alu.kind = "ok"
        /\ alu.insn.op = NamedShift(alu.parcel)
        /\ alu.insn.shift_amt = ShamtField(alu.parcel)
        /\ IF IsWordForm(alu.parcel)
           THEN as_u32(alu.dst) = ShiftedBy(NamedShift(alu.parcel), as_u32(alu.lhs), 32,
                                            ShamtField(alu.parcel))
           ELSE alu.dst = ShiftedBy(NamedShift(alu.parcel), alu.lhs, 64,
                                    ShamtField(alu.parcel))

\* A shift-immediate instruction with a nonzero shamt was handed to the
\* decoder.
C26_Witness ==
    /\ alu.kind # "idle" /\ IsShiftImmediate(alu.parcel)
    /\ ShamtField(alu.parcel) > 0

\* What the decoder does: the shift amount is bits 11..5 of the immediate
\* and the kind is compared with bits 4..0, so every logical shift with a
\* zero shamt field is decoded as the claim says.
C26_ZeroShamtLogical ==
    (alu.kind # "idle" /\ IsShiftImmediate(alu.parcel)
       /\ ShamtField(alu.parcel) = 0 /\ UpperField(alu.parcel) = 0) =>
        /\ alu.kind = "ok"
        /\ alu.insn.op = NamedShift(alu.parcel)
        /\ alu.insn.shift_amt = 0
        /\ alu.dst = (IF IsWordForm(alu.parcel) THEN u32_as_u64(as_u32(alu.lhs))
                      ELSE alu.lhs)

\* A NaN and a signaling NaN of the single-precision format: exponent all
\* ones and mantissa nonzero; signaling when mantissa bit 22 is clear.
IsNaN(v) == (v[2] \div 128) % 256 = 255 /\ ((v[2] % 128) # 0 \/ v[1] # 0)
IsSignalingNaN(v) == IsNaN(v) /\ (v[2] \div 64) % 2 = 0

\* The compare that just ran had a NaN operand; it raised the invalid flag;
\* it left fcsr alone.
CompareOfNaN == IsNaN(fpu.lhs) \/ IsNaN(fpu.rhs)
RaisedInvalid == csrs[FCSR] = BitOr(fpu.before, FLAG_INVALID)
RaisedNothing == csrs[FCSR] = fpu.before

\* C27: feq, flt and fle write 0 when an operand is a NaN; feq then raises
\* the invalid-operation flag only for a signaling NaN, flt and fle always;
\* without a NaN operand no flag is raised.
C27_CompareOfNaN ==
    fpu.kind = "compare" =>
        IF CompareOfNaN
        THEN /\ registers[fpu.insn.dst] = 0
             /\ IF fpu.insn.op = "Equal"
                     /\ ~(IsSignalingNaN(fpu.lhs) \/ IsSignalingNaN(fpu.rhs))
                THEN RaisedNothing
                ELSE RaisedInvalid
        ELSE RaisedNothing

\* flt ran with a quiet NaN as its left operand and 1.0 as its right one,
\* with no flag set before.
C27_Witness ==
    /\ fpu.kind = "compare" /\ fpu.insn.op = "LessThan"
    /\ fpu.lhs = <<0, 32704>> /\ fpu.rhs = <<0, 16256>>
    /\ fpu.before = 0

\* The result half of the claim does hold: a compare with a NaN operand
\* writes 0.
C27_NaNComparesFalse ==
    (fpu.kind = "compare" /\ CompareOfNaN) => registers[fpu.insn.dst] = 0

\* What the code does with the flag: a compare raises nothing unless an
\* operand has the exponent field EXPONENT_BITS (8) and a nonzero mantissa,
\* which no NaN has.
C27_FlagOnExponentEight ==
    (fpu.kind = "compare" /\ ~is_nan(fpu.lhs) /\ ~is_nan(fpu.rhs)) => RaisedNothing

\* C28: an arithmetic instruction with the dynamic rounding mode uses
\* (fcsr >> 5) & 7, whatever the flag bits 4:0 are; one with a static
\* rounding mode uses that mode.
C28_EffectiveRoundingMode ==
    fpu.kind = "arith" =>
        fpu.mode = (IF fpu.rm = Dynamic THEN (fpu.before \div 32) % 8 ELSE fpu.rm)

\* A dynamic-mode instruction ran with a nonzero rounding mode in fcsr.
C28_Witness ==
    /\ fpu.kind = "arith" /\ fpu.rm = Dynamic
    /\ (fpu.before \div 32) % 8 # 0

\* The static half of the claim holds.
C28_StaticRoundingMode ==
    (fpu.kind = "arith" /\ fpu.rm # Dynamic) => fpu.mode = fpu.rm

\* What the dynamic mode reads: the flag bits 2:0 of fcsr.
C28_DynamicReadsFlagBits ==
    (fpu.kind = "arith" /\ fpu.rm = Dynamic) => fpu.mode = fpu.before % 8

\* The step is a debugger memory access, and the range it was given.
IsMemoryAccess == reply'.seq # reply.seq /\ reply'.op \in {"read", "write"}
AccessMapped == Mapped(reply'.start_addr, reply'.len)

\* C29: a debugger memory access raises no guest trap: mcause, mtval and the
\* pending-trap flag are unchanged; a read that reaches an untranslatable
\* byte returns the number of bytes before it, a write that reaches one
\* returns the remote-I/O error.
C29_DebuggerAccessNoTrap ==
    [][IsMemoryAccess =>
          /\ should_trap' = should_trap
          /\ csrs'[MCAUSE] = csrs[MCAUSE] /\ csrs'[MTVAL] = csrs[MTVAL]
          /\ (reply'.op = "read" /\ ~AccessMapped) =>
                reply'.ret = [result |-> "Ok",
                              n |-> FirstUnmapped(reply'.start_addr, reply'.len)
                                      - reply'.start_addr]
          /\ (reply'.op = "write" /\ ~AccessMapped) =>
                reply'.ret = [result |-> "Errno", errno |-> EREMOTEIO]]_vars

\* A three-byte read that starts two bytes before the end of DRAM was
\* answered with 2, and no trap is pending.
C29_Witness ==
    /\ reply.op = "read" /\ reply.start_addr = DRAM_BASE + DRAM_SIZE - 2
    /\ reply.len = 3 /\ reply.ret = [result |-> "Ok", n |-> 2]
    /\ ~should_trap /\ ~panicked

\* A write across the end of DRAM was answered with the error while a trap
\* requested by the guest was pending, which stays pending.
C29_WitnessWrite ==
    /\ reply.op = "write" /\ reply.ret = [result |-> "Errno", errno |-> EREMOTEIO]
    /\ ~panicked

\* The step is a debugger write of all registers.
IsWriteRegisters == reply'.seq # reply.seq /\ reply'.op = "write_registers"

\* C30: a write-all-registers request with a nonzero value for r0 is
\* accepted: r0 still reads 0, r1..r31, pc and the float registers take the
\* supplied values, and the emulator does not abort.
C30_NonzeroR0Discarded ==
    [][(IsWriteRegisters /\ reply'.regs.x[0] # 0) =>
          /\ ~panicked'
          /\ registers'[0] = 0
          /\ \A i \in RegIdx \ {0} : registers'[i] = reply'.regs.x[i]
          /\ fp_registers' = FPSetAllRaw(fp_registers, reply'.regs.f)
          /\ pc' = reply'.regs.pc]_vars

\* The debugger sent a register file whose r0 is nonzero.
C30_Witness ==
    /\ reply.op = "write_registers" /\ reply.regs.x[0] # 0
    /\ registers[0] = 0

\* A register file whose r0 is 0 is written as the claim says.
C30_ZeroR0Written ==
    [][(IsWriteRegisters /\ reply'.regs.x[0] = 0) =>
          /\ ~panicked'
          /\ registers'[0] = 0
          /\ \A i \in RegIdx \ {0} : registers'[i] = reply'.regs.x[i]
          /\ fp_registers' = FPSetAllRaw(fp_registers, reply'.regs.f)
          /\ pc' = reply'.regs.pc]_vars

\* C31: a step that starts with a trap pending and pc in the breakpoint set
\* enters the trap (pc := mtvec, Stepped) and does not report HitBreakpoint;
\* when mtvec itself is a breakpoint, the step after the trap entry reports
\* it and executes nothing.
C31_TrapBeforeBreakpoint ==
    /\ [][(IsStep /\ should_trap /\ pc \in breakpoints) =>
            /\ last'.kind = "trap_entry"
            /\ pc' = csrs[MTVEC] /\ ~should_trap'
            /\ ~panicked'
            /\ (exec_state = "Step" => status' = "Stepped")]_vars
    /\ [][(IsStep /\ last.kind = "trap_entry" /\ pc \in breakpoints) =>
            /\ last'.kind = "breakpoint" /\ status' = "HitBreakpoint"
            /\ pc' = pc /\ registers' = registers]_vars

\* The ecall of program "trap" left a trap pending with pc at a breakpoint,
\* and the next step went into exec_trap.
C31_Witness ==
    /\ last.kind = "trap_entry" /\ last.start_pc \in breakpoints
    /\ csrs[MCAUSE] = ECALL_MMODE
    /\ pc = csrs[MTVEC] /\ ~should_trap

\* The order of the two tests is as claimed: with a trap pending the
\* breakpoint at pc is not looked at, the step goes to exec_trap, which sets
\* pc = mtvec, and HitBreakpoint is not returned.
C31_TrapTestedFirst ==
    [][(IsStep /\ should_trap /\ pc \in breakpoints) =>
          /\ last'.kind = "trap_entry"
          /\ pc' = csrs[MTVEC] /\ ~should_trap'
          /\ status' # "HitBreakpoint"]_vars

\* A transition of the emulator itself, not a debugger command: commands
\* count in dbg_ops, resume and step set exec_state.
IsEmulatorMove == dbg_ops' = dbg_ops /\ exec_state' = exec_state

\* C32: while pc is in the breakpoint set and no trap is pending, no step and
\* no run-loop call executes a guest instruction or moves pc: a step made in
\* the Step or Running state returns HitBreakpoint and ends the call, and a
\* poll that fires first returns None; so resuming on a breakpoint makes no
\* progress.
C32_BreakpointHoldsExecution ==
    [][(pc \in breakpoints /\ ~should_trap /\ IsEmulatorMove) =>
          /\ pc' = pc /\ pc' \in breakpoints' /\ ~should_trap'
          /\ registers' = registers /\ fp_registers' = fp_registers
          /\ mem' = mem /\ csrs' = csrs
          /\ last'.kind # "executed" \/ last' = last
          /\ IsStep =>
               /\ exec_state \in {"Step", "Running"}
               /\ last'.kind = "breakpoint"
               /\ status' = "HitBreakpoint" /\ ~in_call' /\ ~panicked'
          /\ (~IsStep /\ status' # status) => status' \in {"None", "Paused"}]_vars

\* Resumed in the Running state on a breakpoint at the entry point, the
\* emulator has made two calls and is still there with nothing executed.
C32_Witness ==
    /\ exec_state = "Running" /\ status = "HitBreakpoint"
    /\ last.kind = "breakpoint" /\ pc = BOOTROM_OFFSET /\ pc \in breakpoints
    /\ cycles >= 2 /\ nsteps = cycles
    /\ registers[1] = 0 /\ ~in_call /\ ~panicked

\* The value an instruction's CSR write side works with, read before the step.
CsrOldOperand(insn) ==
    IF insn.op = "CSRReadWrite" THEN GPGet(registers, insn.src)
    ELSE IF insn.op \in {"CSRReadAndSet", "CSRReadAndClear"}
         THEN GPGet(registers, insn.mask)
    ELSE 0

\* C33: every instruction computes its results from the register values held
\* when it starts, also when its destination is one of its sources: jalr
\* jumps to the old base plus offset with bit 0 cleared, a register-form CSR
\* write, set or clear updates the CSR from the old source value (set is
\* val | source; clear is checked with the executor's own val & source), and
\* a read-modify-write stores the operation of the value in memory and the
\* old source register 2.
C33_ResultsFromOldSources ==
    /\ [][(IsStep /\ ~should_trap /\ last'.kind = "executed"
             /\ last'.insn.op = "JumpAndLinkRegister") =>
             LET target == wrapping_add_signed(GPGet(registers, last'.insn.jmp_reg),
                                               last'.insn.jmp_off)
             IN pc' = target - (target % 2)]_vars
    /\ [][(IsCsrStep /\ last'.insn.csr \in CsrRw
             /\ \/ last'.insn.op = "CSRReadWrite"
                \/ /\ last'.insn.op \in {"CSRReadAndSet", "CSRReadAndClear"}
                   /\ last'.insn.mask # 0) =>
             csrs'[last'.insn.csr] =
                 CASE last'.insn.op = "CSRReadWrite" -> CsrOldOperand(last'.insn)
                   [] last'.insn.op = "CSRReadAndSet" ->
                        BitOr(csrs[last'.insn.csr], CsrOldOperand(last'.insn))
                   [] OTHER ->
                        BitAnd(csrs[last'.insn.csr], CsrOldOperand(last'.insn))]_vars
    /\ [][IsAmoStep =>
             LET a == GPGet(registers, last'.insn.src1)
                 n == last'.insn.width
             IN read_int(mem', a, n).val =
                    amo_replacement(last'.insn.op, read_int(mem, a, n).val,
                                    Truncate(GPGet(registers, last'.insn.src2), n), n)]_vars

\* amoadd.w x2, x2, (x1) with 5 in memory and 3 in x2: x2 received 5 and was
\* then read as the addend, so memory holds 5 + 5 and not 5 + 3.
C33_Witness ==
    /\ last.kind = "executed" /\ last.insn.op = "Add" /\ last.insn.width = 4
    /\ last.insn.dst = 2 /\ last.insn.src2 = 2
    /\ registers[2] = 5
    /\ read_int(mem, DRAM_BASE, 4).val = 10
    /\ ~panicked

\* With the destination distinct from every source register the three
\* executors do compute from the values held at the start.
C33_DistinctRegisters ==
    /\ [][(IsStep /\ ~should_trap /\ last'.kind = "executed"
             /\ last'.insn.op = "JumpAndLinkRegister"
             /\ last'.insn.link_reg # last'.insn.jmp_reg) =>
             LET target == wrapping_add_signed(GPGet(registers, last'.insn.jmp_reg),
                                               last'.insn.jmp_off)
             IN pc' = target - (target % 2)]_vars
    /\ [][(IsAmoStep /\ last'.insn.dst # last'.insn.src2) =>
             LET a == GPGet(registers, last'.insn.src1)
                 n == last'.insn.width
             IN read_int(mem', a, n).val =
                    amo_replacement(last'.insn.op, read_int(mem, a, n).val,
                                    Truncate(GPGet(registers, last'.insn.src2), n), n)]_vars

\* The step being taken executes an instruction of the atomic extension, and
\* the address it names.
IsAtomicStep ==
    /\ IsStep /\ ~should_trap /\ last'.kind = "executed"
    /\ last'.insn.ext = "Atomic"
AtomicAddr ==
    GPGet(registers, IF last'.insn.op = "LoadReserved" THEN last'.insn.src
                     ELSE last'.insn.src1)

\* C34: a load-reserved, store-conditional or read-modify-write whose address
\* does not translate to physical memory (unmapped, boot-ROM or device page)
\* requests a page-fault trap with mtval the failing address, and the step
\* returns normally; the emulator does not abort.
C34_AtomicFaultTraps ==
    [][(IsAtomicStep /\ translate_address(AtomicAddr).kind = "err") =>
          /\ ~panicked'
          /\ should_trap'
          /\ csrs'[MCAUSE] \in {LOAD_PAGE_FAULT, STORE_PAGE_FAULT}
          /\ csrs'[MTVAL] = AtomicAddr
          /\ exec_state = "Step" => status' = "Stepped"]_vars

\* lr.w x3, (x1) with x1 = 0x4000, an address no page maps.  The
\* emulator has aborted, no trap is requested and x3 was not written.
C34_Witness ==
    /\ last.kind = "executed" /\ last.insn.op = "LoadReserved"
    /\ registers[1] = 4 * PAGE_SIZE /\ translate_address(4 * PAGE_SIZE).kind = "err"
    /\ panicked /\ ~should_trap /\ registers[3] = 0
    /\ DOMAIN mem.reservations = {}

\* What the executors do instead.  A load-reserved or store-conditional
\* aborts with no trap requested, no register written and the reservation
\* table as it was.  A read-modify-write does not translate the address: on
\* an unmapped page its read fails and it aborts, and on the boot ROM it is
\* carried out like on DRAM, with no trap and no abort.
C34_AtomicFaultAborts ==
    [][(IsAtomicStep /\ translate_address(AtomicAddr).kind = "err") =>
          /\ ~should_trap' /\ csrs' = csrs
          /\ mem'.reservations = mem.reservations
          /\ last'.insn.op \in {"LoadReserved", "StoreConditional"} =>
                panicked' /\ registers' = registers /\ mem' = mem
          /\ last'.insn.op \notin {"LoadReserved", "StoreConditional"} =>
                IF PageBase(AtomicAddr) \in DOMAIN mappings
                THEN /\ ~panicked'
                     /\ registers' = GPSet(registers, last'.insn.dst,
                                           read_int(mem, AtomicAddr, 4).val)
                ELSE panicked' /\ registers' = registers /\ mem' = mem]_vars

\* C35: whatever parcel is at pc and whatever the supported set, a fetch
\* either returns an instruction of size 2 or 4, which is then executed, or
\* requests a trap and reports the decode failure; no bit pattern aborts
\* the emulator in the decoder.  (Steps that end in a decoder family this
\* model does not follow are left out.)
C35_DecodeIsTotal ==
    [][(IsFetchStep /\ last'.kind # "other") =>
          \/ last'.kind = "executed" /\ last'.size \in {2, 4}
          \/ last'.kind = "decode_err" /\ should_trap' /\ ~panicked']_vars

\* The guest ran off its last instruction into the zero-filled rest of the
\* boot ROM: the parcel at pc is all zero, and the 16-bit decoder has aborted
\* the emulator without requesting a trap.
C35_Witness ==
    /\ last.kind = "decode_panic" /\ panicked /\ ~should_trap
    /\ "COMPRESSED" \in supported_extensions
    /\ pc = last.start_pc /\ pc > BOOTROM_OFFSET
    /\ ParcelAtPc.kind = "ok" /\ ParcelAtPc.val = 0

\* A decoder that fails without aborting has requested a trap, and a decoded
\* instruction has size 2 or 4.
C35_FailureRequestsTrap ==
    [][IsFetchStep =>
          /\ last'.kind = "decode_err" => should_trap' /\ ~panicked'
          /\ last'.kind = "executed" => last'.size \in {2, 4}
          /\ last'.kind = "decode_panic" => panicked' /\ should_trap' = should_trap]_vars

\* Memory m2 is memory m after the first k of the given bytes were written at
\* address a and nothing else: those bytes are there, the reservations on
\* their lines are gone and no other is, and every other byte is as it was.
WrittenUpTo(m, m2, a, bytes, k) ==
    LET done == {translate_address(a + i).phys : i \in 0 .. (k - 1)}
    IN /\ \A i \in 0 .. (k - 1) : read_int(m2, a + i, 1).val = bytes[i + 1]
       /\ m2.reservations =
             [l \in DOMAIN m.reservations \ {LineOf(p) : p \in done} |-> m.reservations[l]]
       /\ \A p \in (DOMAIN m.phys \cup DOMAIN m2.phys) \ done :
             BufGet(m2.phys, p) = BufGet(m.phys, p)
       /\ m2.bootrom = m.bootrom

\* The bytes a store instruction writes, and where.
StoreAddr(insn) == wrapping_add_signed(GPGet(registers, insn.dst), insn.dst_offset)
StoreBytes(insn) ==
    to_le_bytes(Truncate(GPGet(registers, insn.src), StoreWidth(insn.op)),
                StoreWidth(insn.op))

\* C36: a multi-byte write that fails at byte k is not rolled back.  For a
\* store instruction that runs into an unmapped page after k bytes of DRAM,
\* and for a debugger write that does, the first k bytes are in memory, the
\* reservations on their lines are evicted, and nothing else has changed;
\* the store still requests store-page-fault at the failing address.
C36_FailedWriteKeepsPrefix ==
    /\ [][(IsStoreStep /\ Mapped(StoreAddr(last'.insn), 1)
             /\ ~Mapped(StoreAddr(last'.insn), StoreWidth(last'.insn.op))) =>
             LET a == StoreAddr(last'.insn)
                 fail == FirstUnmapped(a, StoreWidth(last'.insn.op))
             IN /\ WrittenUpTo(mem, mem', a, StoreBytes(last'.insn), fail - a)
                /\ should_trap' /\ csrs'[MCAUSE] = STORE_PAGE_FAULT
                /\ csrs'[MTVAL] = fail
                /\ ~panicked']_vars
    /\ [][(IsMemoryAccess /\ reply'.op = "write" /\ Mapped(reply'.start_addr, 1)
             /\ ~AccessMapped) =>
             \E w \in MemoryWrites :
                /\ w.start_addr = reply'.start_addr /\ Len(w.data) = reply'.len
                /\ WrittenUpTo(mem, mem', w.start_addr, w.data,
                               FirstUnmapped(w.start_addr, Len(w.data)) - w.start_addr)
                /\ reply'.ret.result = "Errno"]_vars

\* Program "lrmix" reserved the last line of DRAM with lr.w and was stopped;
\* the debugger then wrote <<51, 68>> at the last byte of DRAM: the write
\* failed at the second byte, the first byte is in memory and the
\* reservation is gone.
C36_Witness ==
    /\ reply.op = "write" /\ reply.ret.result = "Errno"
    /\ reply.start_addr = DRAM_BASE + DRAM_SIZE - 1 /\ reply.len = 2
    /\ read_int(mem, DRAM_BASE + DRAM_SIZE - 1, 1).val = 51
    /\ last.kind = "executed" /\ last.insn.op = "LoadReserved"
    /\ registers[1] = DRAM_BASE + DRAM_SIZE - 4
    /\ DOMAIN mem.reservations = {}
    /\ ~panicked

\* Program "fault": sw x2, -2(x1) with x1 the end of DRAM and x2 = 1963 has
\* requested store-page-fault with the low two bytes already stored.
C36_WitnessStore ==
    /\ last.kind = "executed" /\ last.insn.op = "StoreWord" /\ should_trap
    /\ csrs[MCAUSE] = STORE_PAGE_FAULT /\ csrs[MTVAL] = DRAM_BASE + DRAM_SIZE
    /\ read_int(mem, DRAM_BASE + DRAM_SIZE - 2, 2).val = 1963

\* Every reservation of the table before the step, other than one on the
\* given line, is in the table after the step with the same hart.
OtherLinesKept(line) ==
    \A l \in DOMAIN mem.reservations \ {line} :
        l \in DOMAIN mem'.reservations /\ mem'.reservations[l] = mem.reservations[l]

C38_WitnessAbort ==
    /\ last.kind = "executed" /\ last.insn.op = "Swap" /\ panicked
    /\ registers[1] = 4 * PAGE_SIZE /\ ~mem.atomic_lock

\* The page entries of a built memory that are backed by physical memory.
PhysBackedPages(m) == {base \in DOMAIN m.mappings : m.mappings[base].kind = "PhysBacked"}

\* C39: every physically-backed page entry the builder creates lies inside
\* the physical buffer: phys_base + PAGE_SIZE does not exceed the configured
\* physical size, so that an access to a mapped address indexes in range.
C39_PagesInsidePhysical ==
    (built # <<>> /\ built[1].kind = "ok") =>
        \A base \in PhysBackedPages(built[1]) :
            built[1].mappings[base].phys_base + PAGE_SIZE <= built[1].phys_len

\* physical_size(PAGE_SIZE), phys_mapping(virt, 0, 2 * PAGE_SIZE), build: the
\* build succeeded, and the second page of the mapping has phys_base =
\* PAGE_SIZE, the length of the physical buffer.
C39_Witness ==
    /\ built # <<>> /\ built[1].kind = "ok"
    /\ built[1].phys_len = PAGE_SIZE
    /\ Len(calls) = 2
    /\ \E base \in PhysBackedPages(built[1]) :
          built[1].mappings[base].phys_base = PAGE_SIZE

\* The memory the emulator itself configures has every page inside its
\* physical buffer.
C39_EmulatorMemoryInRange ==
    /\ built # <<>> /\ built[1].kind = "ok"
    /\ \A base \in PhysBackedPages(built[1]) :
          built[1].mappings[base].phys_base + PAGE_SIZE <= built[1].phys_len
    /\ \A base \in DOMAIN mappings :
          mappings[base].kind = "PhysBacked" => mappings[base].phys_base + PAGE_SIZE <= PHYS_SIZE

\* The step being taken executes a jump-and-link-register that was decoded
\* from a 16-bit parcel: c.jalr (link register x1) or c.jr (x0).
IsCompressedJalrStep ==
    /\ IsStep /\ ~should_trap /\ last'.kind = "executed"
    /\ last'.insn.op = "JumpAndLinkRegister" /\ last'.size = 2

\* C40: after a c.jalr at address P the link register holds P + 2, the
\* address of the instruction after the 2-byte c.jalr.
C40_CompressedJalrLinksNext ==
    [][(IsCompressedJalrStep /\ last'.insn.link_reg # 0) =>
          registers'[last'.insn.link_reg] = last'.start_pc + 2]_vars

\* c.jalr x5 at BOOTROM_OFFSET + 8 with x5 = BOOTROM_OFFSET + 10: the jump
\* went to x5, and x1 holds BOOTROM_OFFSET + 12, four bytes after the c.jalr.
C40_Witness ==
    /\ last.kind = "executed" /\ last.insn.op = "JumpAndLinkRegister" /\ last.size = 2
    /\ last.insn.link_reg = LINK_REG /\ last.insn.jmp_reg = 5
    /\ last.start_pc = BOOTROM_OFFSET + 8
    /\ pc = BOOTROM_OFFSET + 10
    /\ registers[1] = BOOTROM_OFFSET + 12
    /\ ~panicked

\* What c.jalr and c.jr do: the jump goes to the register with bit 0
\* cleared, c.jr writes no register, and c.jalr leaves start_pc + 4 in x1.
C40_CompressedJalrLinksFour ==
    [][IsCompressedJalrStep =>
          /\ last'.insn.jmp_off = 0 /\ last'.insn.link_reg \in {0, LINK_REG}
          /\ pc' = GPGet(registers, last'.insn.jmp_reg)
                     - (GPGet(registers, last'.insn.jmp_reg) % 2)
          /\ registers' = GPSet(registers, last'.insn.link_reg, last'.start_pc + 4)]_vars

====
